---- MODULE Spec2Model ----
(***************************************************************************)
(* Model of the stream engine of dlls/winecoreaudio.drv/coreaudio.c:       *)
(* struct coreaudio_stream, the two hardware callbacks (ca_render_cb,      *)
(* ca_capture_cb), the capture resampler (capture_resample, feed_cb) and   *)
(* the client entry points (start, stop, reset, get/release render and     *)
(* capture buffer, get_current_padding, get_next_packet_size,              *)
(* get_position).                                                          *)
(*                                                                         *)
(* Every handler takes the stream spin lock on entry and drops it on exit, *)
(* so each handler is one atomic action.  Buffers are counted in frames:   *)
(* every byte count of the source is a frame count times fmt->nBlockAlign. *)
(* A buffer is a function from 0..size-1 to sample values.  The scratch    *)
(* buffers wrap_buffer and resamp_buffer are filled and emptied inside one *)
(* handler; they are taken to be as large as the handler grows them, so    *)
(* wrap_bufsize_frames and resamp_bufsize_frames are not part of the state.*)
(***************************************************************************)
EXTENDS Integers, Sequences, FiniteSets, TLC

VARIABLES
    stream,       \* struct coreaudio_stream
    handed,       \* the region *params->data of the last successful get_*_buffer
    hw_out,       \* data->mBuffers[0].mData after the last ca_render_cb
    hw_expect,    \* history: the committed frames that callback had to deliver
    pending,      \* history: frames committed by release_render_buffer, not yet delivered
    released_sum, \* history: frames committed by release_render_buffer since the last reset
    copied_sum,   \* history: frames copied out by ca_render_cb since the last reset
    params,       \* struct create_stream_params the stream was opened with
    lock,         \* stream->lock, an OSSpinLock: 0 free, 1 taken
    unit,         \* stream->unit: "none", "started" or "disposed"
    pc            \* per thread: the function it is in and the statement it is at

vars == <<stream, handed, hw_out, hw_expect, pending, released_sum, copied_sum,
          params, lock, unit, pc>>

\* the variables the statement-level specification SpecLock follows beside
\* stream
lvars == <<params, lock, unit, pc>>

\* the variables it leaves alone
hvars == <<handed, hw_out, hw_expect, pending, released_sum, copied_sum>>

----------------------------------------------------------------------------
(* Bounds of the model *)

\* largest frame count a client passes to get_render_buffer / release_*_buffer
MaxFrames == 4
\* largest nframes the hardware passes to a callback
MaxN == 3
\* cap on stream->written_frames (a 64-bit counter in the source)
MaxWritten == 6

----------------------------------------------------------------------------
(* Result codes and enumerations *)

S_OK == "S_OK"
S_FALSE == "S_FALSE"
AUDCLNT_E_NOT_STOPPED == "AUDCLNT_E_NOT_STOPPED"
AUDCLNT_E_BUFFER_OPERATION_PENDING == "AUDCLNT_E_BUFFER_OPERATION_PENDING"
AUDCLNT_E_OUT_OF_ORDER == "AUDCLNT_E_OUT_OF_ORDER"
AUDCLNT_E_BUFFER_TOO_LARGE == "AUDCLNT_E_BUFFER_TOO_LARGE"
AUDCLNT_E_INVALID_SIZE == "AUDCLNT_E_INVALID_SIZE"
AUDCLNT_S_BUFFER_EMPTY == "AUDCLNT_S_BUFFER_EMPTY"
E_OUTOFMEMORY == "E_OUTOFMEMORY"
noErr == "noErr"
eRender == "eRender"
eCapture == "eCapture"
AUDCLNT_SHAREMODE_SHARED == "AUDCLNT_SHAREMODE_SHARED"
AUDCLNT_SHAREMODE_EXCLUSIVE == "AUDCLNT_SHAREMODE_EXCLUSIVE"
AUDCLNT_BUFFERFLAGS_SILENT == "AUDCLNT_BUFFERFLAGS_SILENT"
NoFlags == "0"

----------------------------------------------------------------------------
(* Helpers *)

min(a, b) == IF a < b THEN a ELSE b

\* muldiv for the non-negative operands the stream code passes
muldiv(a, b, c) ==
    IF c = 0 THEN -1
    ELSE LET ret == ((a * b) + (c \div 2)) \div c
         IN  IF ret > 2147483647 THEN -1 ELSE ret

\* memset(buffer + offs, v, n)
memset(buffer, offs, v, n) ==
    [i \in DOMAIN buffer |-> IF i >= offs /\ i < offs + n THEN v ELSE buffer[i]]

\* what a read at index i of a buffer yields; outside the buffer it is
\* whatever lies beyond the allocation
Garbage == 0 - 1
peek(buffer, i) == IF i \in DOMAIN buffer THEN buffer[i] ELSE Garbage

\* memcpy(dst + dst_offs, src + src_offs, n)
memcpy(dst, dst_offs, src, src_offs, n) ==
    [i \in DOMAIN dst |->
        IF i >= dst_offs /\ i < dst_offs + n
        THEN peek(src, src_offs + (i - dst_offs))
        ELSE dst[i]]

\* the n frames of a buffer starting at offs, as a sequence
slice(buffer, offs, n) == [j \in 1..n |-> peek(buffer, offs + j - 1)]

\* a sequence as a buffer indexed from 0
as_buffer(seq) == [i \in 0..(Len(seq) - 1) |-> seq[i + 1]]

silence_value(fmt) == IF fmt.pcm /\ fmt.wBitsPerSample = 8 THEN 128 ELSE 0

silence_buffer(s, buffer, offs, frames) ==
    memset(buffer, offs, silence_value(s.fmt), frames)

\* ca_wrap_buffer with the second part taken from the start of src again
ca_wrap_buffer_restart(dst, dst_offs, dst_frames, src, src_frames) ==
    LET chunk == dst_frames - dst_offs
    IN  IF chunk < src_frames
        THEN memcpy(memcpy(dst, dst_offs, src, 0, chunk),
                    0, src, 0, src_frames - chunk)
        ELSE memcpy(dst, dst_offs, src, 0, src_frames)

ca_wrap_buffer(dst, dst_offs, dst_frames, src, src_frames) ==
    LET chunk == dst_frames - dst_offs
    IN  IF chunk < src_frames
        THEN memcpy(memcpy(dst, dst_offs, src, 0, chunk),
                    0, src, chunk, src_frames - chunk)
        ELSE memcpy(dst, dst_offs, src, 0, src_frames)

----------------------------------------------------------------------------
(* create_stream *)

\* the create_stream_params the model opens a stream with; rate is
\* fmt->nSamplesPerSec, dev_rate is dev_desc.mSampleRate as the audio unit
\* reports it, period and duration are REFERENCE_TIMEs (100 ns units)
StreamParams ==
    { [flow |-> eRender, share |-> AUDCLNT_SHAREMODE_SHARED,
       period |-> 208, duration |-> 625,
       rate |-> 48000, dev_rate |-> 48000, channels |-> 2, bits |-> 16, pcm |-> TRUE],
      [flow |-> eRender, share |-> AUDCLNT_SHAREMODE_EXCLUSIVE,
       period |-> 417, duration |-> 625,
       rate |-> 48000, dev_rate |-> 48000, channels |-> 1, bits |-> 8, pcm |-> TRUE],
      [flow |-> eCapture, share |-> AUDCLNT_SHAREMODE_SHARED,
       period |-> 208, duration |-> 833,
       rate |-> 48000, dev_rate |-> 44100, channels |-> 2, bits |-> 16, pcm |-> TRUE],
      [flow |-> eCapture, share |-> AUDCLNT_SHAREMODE_SHARED,
       period |-> 417, duration |-> 1042,
       rate |-> 48000, dev_rate |-> 44100, channels |-> 2, bits |-> 16, pcm |-> TRUE] }

create_stream(p) ==
    LET fmt == [nSamplesPerSec |-> p.rate, wBitsPerSample |-> p.bits, pcm |-> p.pcm,
                nBlockAlign |-> (p.channels * p.bits) \div 8]
        period_frames == muldiv(p.period, p.rate, 10000000)
        bufsize0 == muldiv(p.duration, p.rate, 10000000)
        bufsize_frames == IF p.share = AUDCLNT_SHAREMODE_EXCLUSIVE
                          THEN bufsize0 - (bufsize0 % period_frames)
                          ELSE bufsize0
        cap_bufsize_frames == IF p.flow = eCapture
                              THEN muldiv(p.duration, p.dev_rate, 10000000)
                              ELSE 0
    IN  [ flow |-> p.flow,
          share |-> p.share,
          fmt |-> fmt,
          dev_rate |-> p.dev_rate,
          playing |-> FALSE,
          period_frames |-> period_frames,
          bufsize_frames |-> bufsize_frames,
          lcl_offs_frames |-> 0,
          held_frames |-> 0,
          wri_offs_frames |-> 0,
          tmp_buffer_frames |-> 0,
          tmp_buffer |-> FALSE,
          cap_bufsize_frames |-> cap_bufsize_frames,
          cap_offs_frames |-> 0,
          cap_held_frames |-> 0,
          written_frames |-> 0,
          getbuf_last |-> 0,
          local_buffer |-> [i \in 0..(bufsize_frames - 1) |-> silence_value(fmt)],
          cap_buffer |-> [i \in 0..(cap_bufsize_frames - 1) |-> 0] ]

\* a region handed to the client: the buffer it lies in and the offset into
\* it, the ring position it stands for, its length, and its content as the
\* client sees it
NoData == [buf |-> "none", offs |-> 0, pos |-> 0, frames |-> 0, data |-> <<>>]

\* the threads that touch a stream: the client's calling thread and the
\* audio unit's callback thread
Threads == {"client", "hw"}

\* a thread outside every function of the driver
Idle == [op |-> "idle", path |-> <<>>, at |-> 0]

\* the state once create_stream has returned a stream of one of the flows
InitFlows(flows) ==
    /\ \E p \in StreamParams :
           p.flow \in flows /\ params = p /\ stream = create_stream(p)
    /\ lock = 0
    /\ unit = "started"
    /\ pc = [t \in Threads |-> Idle]
    /\ handed = NoData
    /\ hw_out = <<>>
    /\ hw_expect = <<>>
    /\ pending = <<>>
    /\ released_sum = 0
    /\ copied_sum = 0

Init == InitFlows({eRender, eCapture})
InitRender == InitFlows({eRender})
InitCapture == InitFlows({eCapture})

----------------------------------------------------------------------------
(* ca_render_cb *)

\* the count of line 336 taken whether the stream plays or not
render_cb_frames_always(s, nframes) == min(nframes, s.held_frames)

\* the count of line 336 with the newest held frame always left in the ring
render_cb_frames_one_short(s, nframes) ==
    IF s.playing /\ s.held_frames > 0 THEN min(nframes, s.held_frames - 1) ELSE 0

\* the frames the callback copies out of local_buffer
render_cb_frames(s, nframes) ==
    IF s.playing THEN min(nframes, s.held_frames) ELSE 0

\* the destination buffer the callback leaves behind
render_cb_data(s, nframes) ==
    LET to_copy == render_cb_frames(s, nframes)
        chunk == s.bufsize_frames - s.lcl_offs_frames
        copied == IF to_copy > chunk
                  THEN slice(s.local_buffer, s.lcl_offs_frames, chunk)
                       \o slice(s.local_buffer, 0, to_copy - chunk)
                  ELSE slice(s.local_buffer, s.lcl_offs_frames, to_copy)
    IN  copied \o [j \in 1..(nframes - to_copy) |-> silence_value(s.fmt)]

\* the stream after the callback
ca_render_cb(s, nframes) ==
    IF s.playing
    THEN LET to_copy == render_cb_frames(s, nframes)
         IN  [s EXCEPT !.lcl_offs_frames = (s.lcl_offs_frames + to_copy) % s.bufsize_frames,
                       !.held_frames = s.held_frames - to_copy]
    ELSE s

----------------------------------------------------------------------------
(* start, stop, reset *)

\* start that starts again what is playing
start_again(s) == [stream |-> [s EXCEPT !.playing = TRUE], result |-> S_OK]

start(s) ==
    IF s.playing
    THEN [stream |-> s, result |-> AUDCLNT_E_NOT_STOPPED]
    ELSE [stream |-> [s EXCEPT !.playing = TRUE], result |-> S_OK]

\* stop forgetting the outstanding acquisition as it stops the stream
stop_clears_marker(s) ==
    IF ~s.playing
    THEN [stream |-> s, result |-> S_FALSE]
    ELSE [stream |-> [s EXCEPT !.playing = FALSE, !.getbuf_last = 0], result |-> S_OK]

stop(s) ==
    IF ~s.playing
    THEN [stream |-> s, result |-> S_FALSE]
    ELSE [stream |-> [s EXCEPT !.playing = FALSE], result |-> S_OK]

\* reset with the tests of lines 1309 and 1311 swapped
reset_pending_first(s) ==
    IF s.getbuf_last # 0
    THEN [stream |-> s, result |-> AUDCLNT_E_BUFFER_OPERATION_PENDING]
    ELSE IF s.playing
    THEN [stream |-> s, result |-> AUDCLNT_E_NOT_STOPPED]
    ELSE [stream |-> [s EXCEPT !.written_frames =
                                   IF s.flow = eRender THEN 0
                                   ELSE s.written_frames + s.held_frames,
                               !.held_frames = 0,
                               !.lcl_offs_frames = 0,
                               !.wri_offs_frames = 0,
                               !.cap_offs_frames = 0,
                               !.cap_held_frames = 0],
          result |-> S_OK]

\* reset that leaves the raw capture ring as it is
reset_keeps_raw(s) ==
    IF s.playing
    THEN [stream |-> s, result |-> AUDCLNT_E_NOT_STOPPED]
    ELSE IF s.getbuf_last # 0
    THEN [stream |-> s, result |-> AUDCLNT_E_BUFFER_OPERATION_PENDING]
    ELSE [stream |-> [s EXCEPT !.written_frames =
                                   IF s.flow = eRender THEN 0
                                   ELSE s.written_frames + s.held_frames,
                               !.held_frames = 0,
                               !.lcl_offs_frames = 0,
                               !.wri_offs_frames = 0],
          result |-> S_OK]

reset(s) ==
    IF s.playing
    THEN [stream |-> s, result |-> AUDCLNT_E_NOT_STOPPED]
    ELSE IF s.getbuf_last # 0
    THEN [stream |-> s, result |-> AUDCLNT_E_BUFFER_OPERATION_PENDING]
    ELSE [stream |-> [s EXCEPT !.written_frames =
                                   IF s.flow = eRender THEN 0
                                   ELSE s.written_frames + s.held_frames,
                               !.held_frames = 0,
                               !.lcl_offs_frames = 0,
                               !.wri_offs_frames = 0,
                               !.cap_offs_frames = 0,
                               !.cap_held_frames = 0],
          result |-> S_OK]

----------------------------------------------------------------------------
(* ca_capture_cb *)

\* the frames AudioUnitRender delivers: a test pattern, each frame valued by
\* the raw ring slot the stream position it arrives at falls into, so that
\* a frame stored in the wrong slot shows in the values
unit_frames(s, nframes) ==
    [j \in 1..nframes |->
        ((s.cap_offs_frames + s.cap_held_frames + j - 1) % s.cap_bufsize_frames) + 1]

cap_wri_offs_frames(s) ==
    (s.cap_offs_frames + s.cap_held_frames) % s.cap_bufsize_frames

\* capture_uses_wrap_buffer letting a span one frame past the ring end go
\* to the ring directly
capture_uses_wrap_buffer_late(s, nframes) ==
    ~s.playing \/ cap_wri_offs_frames(s) + nframes > s.cap_bufsize_frames + 1

\* capture_uses_wrap_buffer looking at the wrap only
capture_uses_wrap_buffer_on_wrap(s, nframes) ==
    cap_wri_offs_frames(s) + nframes > s.cap_bufsize_frames

\* whether the callback has the audio unit render into wrap_buffer
capture_uses_wrap_buffer(s, nframes) ==
    ~s.playing \/ cap_wri_offs_frames(s) + nframes > s.cap_bufsize_frames

\* capture_account with the read offset moved by the whole callback, not by
\* the frames that did not fit
capture_account_by_callback(s, nframes) ==
    LET held == s.cap_held_frames + nframes
    IN  IF held > s.cap_bufsize_frames
        THEN [s EXCEPT !.cap_offs_frames =
                           (s.cap_offs_frames + nframes) % s.cap_bufsize_frames,
                       !.cap_held_frames = s.cap_bufsize_frames]
        ELSE [s EXCEPT !.cap_held_frames = held]

\* capture_account without the saturation of lines 423-427
capture_account_unbounded(s, nframes) ==
    [s EXCEPT !.cap_held_frames = s.cap_held_frames + nframes]

\* cap_offs_frames / cap_held_frames after nframes more frames were stored
capture_account(s, nframes) ==
    LET held == s.cap_held_frames + nframes
    IN  IF held > s.cap_bufsize_frames
        THEN [s EXCEPT !.cap_offs_frames =
                           (s.cap_offs_frames + (held % s.cap_bufsize_frames))
                               % s.cap_bufsize_frames,
                       !.cap_held_frames = s.cap_bufsize_frames]
        ELSE [s EXCEPT !.cap_held_frames = held]

\* sc is the status of AudioUnitRender
ca_capture_cb(s, nframes, sc) ==
    LET wri == cap_wri_offs_frames(s)
        wrap == capture_uses_wrap_buffer(s, nframes)
        data == as_buffer(unit_frames(s, nframes))
        s1 == [s EXCEPT !.cap_buffer =
                            IF wrap THEN s.cap_buffer
                            ELSE memcpy(s.cap_buffer, wri, data, 0, nframes)]
    IN  IF sc # noErr THEN s
        ELSE IF s1.playing
        THEN capture_account(
                 [s1 EXCEPT !.cap_buffer =
                     IF wrap
                     THEN ca_wrap_buffer(s1.cap_buffer, wri, s1.cap_bufsize_frames,
                                         data, nframes)
                     ELSE s1.cap_buffer],
                 nframes)
        ELSE s1

----------------------------------------------------------------------------
(* feed_cb, the converter, capture_resample *)

\* buf_ptr_diff without the wrap
buf_ptr_diff_no_wrap(left, right, bufsize) ==
    IF left <= right THEN right - left ELSE left - right

buf_ptr_diff(left, right, bufsize) ==
    IF left <= right THEN right - left ELSE bufsize - (left - right)

\* the stream after feed_cb served a request of nframes raw frames
feed_cb(s, nframes) ==
    LET n == min(nframes, s.cap_held_frames)
    IN  IF n = 0 THEN s
        ELSE [s EXCEPT !.cap_offs_frames = (s.cap_offs_frames + n) % s.cap_bufsize_frames,
                       !.cap_held_frames = s.cap_held_frames - n]

\* AudioConverterFillComplexBuffer, asked for wanted frames: the converter
\* requests req raw frames through feed_cb, returns status sc and out frames.
\* It cannot make output without input (req >= 1 when wanted >= 1), returns
\* fewer frames than wanted only when feed_cb ran out of raw frames, and may
\* fail.
converter_runs(s, wanted) ==
    { x \in [req : (IF wanted = 0 THEN 0 ELSE 1)..(s.cap_held_frames + 1),
             sc : {noErr, "kAudioConverterErr"},
             out : 0..wanted] :
        /\ (x.sc = noErr /\ x.req <= s.cap_held_frames) => x.out = wanted
        /\ x.sc # noErr => x.out = 0 }

\* the frames the converter writes to resamp_buffer: a test pattern, each
\* frame valued by the client ring slot the stream position it is produced
\* for falls into
converter_frames(s, n) ==
    [j \in 1..n |-> ((s.wri_offs_frames + j - 1) % s.bufsize_frames) + 1]

\* resample_insert counting the inserted frames in written_frames
resample_insert_counted(s, n) ==
    LET wri == (s.wri_offs_frames + n) % s.bufsize_frames
        s1 == [s EXCEPT !.local_buffer =
                            ca_wrap_buffer(s.local_buffer, s.wri_offs_frames,
                                           s.bufsize_frames,
                                           as_buffer(converter_frames(s, n)), n),
                        !.wri_offs_frames = wri,
                        !.written_frames = s.written_frames + n]
    IN  IF s.held_frames + n > s.bufsize_frames
        THEN [s1 EXCEPT !.lcl_offs_frames =
                            s.lcl_offs_frames
                                + buf_ptr_diff(s.lcl_offs_frames, wri, s.bufsize_frames),
                        !.held_frames = s.bufsize_frames]
        ELSE [s1 EXCEPT !.held_frames = s.held_frames + n]

\* lines 1126-1138: the converted frames go into local_buffer
resample_insert(s, n) ==
    LET wri == (s.wri_offs_frames + n) % s.bufsize_frames
        s1 == [s EXCEPT !.local_buffer =
                            ca_wrap_buffer(s.local_buffer, s.wri_offs_frames,
                                           s.bufsize_frames,
                                           as_buffer(converter_frames(s, n)), n),
                        !.wri_offs_frames = wri]
    IN  IF s.held_frames + n > s.bufsize_frames
        THEN [s1 EXCEPT !.lcl_offs_frames =
                            s.lcl_offs_frames
                                + buf_ptr_diff(s.lcl_offs_frames, wri, s.bufsize_frames),
                        !.held_frames = s.bufsize_frames]
        ELSE [s1 EXCEPT !.held_frames = s.held_frames + n]

resamp_period_frames(s) ==
    muldiv(s.period_frames, s.dev_rate, s.fmt.nSamplesPerSec)

\* the loop condition of capture_resample met at the threshold already
resample_wanted_at_threshold(s) ==
    s.cap_held_frames >= muldiv(s.period_frames, s.dev_rate, s.fmt.nSamplesPerSec) * 2

\* the loop condition of capture_resample met above one resamp_period_frames
resample_wanted_one_period(s) ==
    s.cap_held_frames > muldiv(s.period_frames, s.dev_rate, s.fmt.nSamplesPerSec)

\* the loop condition of capture_resample
resample_wanted(s) == s.cap_held_frames > resamp_period_frames(s) * 2

\* resample_step going on to lines 1126-1138 whatever the converter's status
resample_step_ignores_status(s, runs) ==
    { [stream |-> resample_insert(feed_cb(s, x.req), s.period_frames),
       sc |-> x.sc,
       wanted |-> s.period_frames,
       out |-> x.out] : x \in runs }

\* one pass through the body of the loop of capture_resample, lines
\* 1104-1138, once for each way x of runs the converter can behave: the
\* stream it leaves, the converter's status, the frames asked for and got
resample_step(s, runs) ==
    { [stream |-> IF x.sc # noErr
                  THEN feed_cb(s, x.req)
                  ELSE resample_insert(feed_cb(s, x.req), x.out),
       sc |-> x.sc,
       wanted |-> s.period_frames,
       out |-> x.out] : x \in runs }

\* the streams capture_resample can leave behind, one per way the converter
\* can behave; fuel bounds the iterations followed
RECURSIVE resample_loop(_, _)
resample_loop(s, fuel) ==
    IF ~resample_wanted(s) \/ fuel = 0 THEN {s}
    ELSE UNION { IF r.sc # noErr
                 THEN {r.stream}
                 ELSE resample_loop(r.stream, fuel - 1) :
                 r \in resample_step(s, converter_runs(s, s.period_frames)) }

capture_resample(s) == resample_loop(s, s.cap_held_frames)

get_current_padding_nolock(s) ==
    IF s.flow = eCapture THEN capture_resample(s) ELSE {s}

----------------------------------------------------------------------------
(* get_render_buffer, release_render_buffer *)

\* Variants of the definitions below, each with one slip of the kind the
\* properties at the end of the module are meant to tell apart.
\* the test of line 1348 without the padding
render_too_large_no_pad(pad, frames, bufsize_frames) == frames > bufsize_frames

\* the test of line 1348 off by one
render_too_large_at_full(pad, frames, bufsize_frames) == pad + frames >= bufsize_frames

\* line 1348
render_too_large(pad, frames, bufsize_frames) == pad + frames > bufsize_frames

\* render_wraps counting a span that ends exactly at the ring end as wrapping
render_wraps_at_end(s, frames) == s.wri_offs_frames + frames >= s.bufsize_frames

\* line 1353: the span handed out would run past the end of local_buffer
render_wraps(s, frames) == s.wri_offs_frames + frames > s.bufsize_frames

\* the marker of an acquisition through tmp_buffer / straight into local_buffer
indirect_marker(frames) == 0 - frames
direct_marker(frames) == frames

\* the checks of lines 1340-1351 with the zero-frame request answered first
render_early_exit_zero_first(s, pad, frames) ==
    IF frames = 0 THEN S_OK
    ELSE IF s.getbuf_last # 0 THEN AUDCLNT_E_OUT_OF_ORDER
    ELSE IF pad + frames > s.bufsize_frames THEN AUDCLNT_E_BUFFER_TOO_LARGE
    ELSE "continue"

\* the checks of lines 1340-1351 without the zero-frame exit
render_early_exit_no_zero(s, pad, frames) ==
    IF s.getbuf_last # 0 THEN AUDCLNT_E_OUT_OF_ORDER
    ELSE IF pad + frames > s.bufsize_frames THEN AUDCLNT_E_BUFFER_TOO_LARGE
    ELSE "continue"

\* lines 1340-1351: the checks that end get_render_buffer early, in the
\* order of the source; "continue" when none applies
render_early_exit(s, pad, frames) ==
    IF s.getbuf_last # 0 THEN AUDCLNT_E_OUT_OF_ORDER
    ELSE IF frames = 0 THEN S_OK
    ELSE IF render_too_large(pad, frames, s.bufsize_frames) THEN AUDCLNT_E_BUFFER_TOO_LARGE
    ELSE "continue"

\* lines 1353-1374 with the marker written before the allocation is known
\* to have succeeded
render_hand_out_marks_first(s, frames, alloc_ok) ==
    IF s.wri_offs_frames + frames > s.bufsize_frames
    THEN IF s.tmp_buffer_frames < frames /\ ~alloc_ok
         THEN [stream |-> [s EXCEPT !.tmp_buffer_frames = 0, !.tmp_buffer = FALSE,
                                    !.getbuf_last = 0 - frames],
               result |-> E_OUTOFMEMORY, data |-> NoData]
         ELSE [stream |-> [s EXCEPT !.tmp_buffer_frames =
                                        IF s.tmp_buffer_frames < frames
                                        THEN frames ELSE s.tmp_buffer_frames,
                                    !.tmp_buffer = TRUE,
                                    !.getbuf_last = 0 - frames],
               result |-> S_OK,
               data |-> [buf |-> "tmp_buffer", offs |-> 0, pos |-> s.wri_offs_frames,
                         frames |-> frames,
                         data |-> [j \in 1..frames |-> silence_value(s.fmt)]]]
    ELSE [stream |-> [s EXCEPT !.local_buffer =
                                   silence_buffer(s, s.local_buffer,
                                                  s.wri_offs_frames, frames),
                               !.getbuf_last = frames],
          result |-> S_OK,
          data |-> [buf |-> "local_buffer", offs |-> s.wri_offs_frames,
                    pos |-> s.wri_offs_frames, frames |-> frames,
                    data |-> [j \in 1..frames |-> silence_value(s.fmt)]]]

\* lines 1353-1374, taken when no check ended the call; alloc_ok tells
\* whether NtAllocateVirtualMemory succeeds should tmp_buffer have to grow
render_hand_out(s, frames, alloc_ok) ==
    IF render_wraps(s, frames)
    THEN IF s.tmp_buffer_frames < frames /\ ~alloc_ok
         THEN [stream |-> [s EXCEPT !.tmp_buffer_frames = 0, !.tmp_buffer = FALSE],
               result |-> E_OUTOFMEMORY, data |-> NoData]
         ELSE [stream |-> [s EXCEPT !.tmp_buffer_frames =
                                        IF s.tmp_buffer_frames < frames
                                        THEN frames ELSE s.tmp_buffer_frames,
                                    !.tmp_buffer = TRUE,
                                    !.getbuf_last = indirect_marker(frames)],
               result |-> S_OK,
               data |-> [buf |-> "tmp_buffer", offs |-> 0, pos |-> s.wri_offs_frames,
                         frames |-> frames,
                         data |-> [j \in 1..frames |-> silence_value(s.fmt)]]]
    ELSE [stream |-> [s EXCEPT !.local_buffer =
                                   silence_buffer(s, s.local_buffer,
                                                  s.wri_offs_frames, frames),
                               !.getbuf_last = direct_marker(frames)],
          result |-> S_OK,
          data |-> [buf |-> "local_buffer", offs |-> s.wri_offs_frames,
                    pos |-> s.wri_offs_frames, frames |-> frames,
                    data |-> [j \in 1..frames |-> silence_value(s.fmt)]]]

\* get_render_buffer once pad was taken (s is the stream the padding helper left)
get_render_buffer_locked(s, frames, alloc_ok) ==
    LET early == render_early_exit(s, s.held_frames, frames)
    IN  IF early # "continue"
        THEN [stream |-> s, result |-> early, data |-> NoData]
        ELSE render_hand_out(s, frames, alloc_ok)

get_render_buffer(s, frames, alloc_ok) ==
    { get_render_buffer_locked(s1, frames, alloc_ok) :
        s1 \in get_current_padding_nolock(s) }

\* the test of line 1395 off by one
release_too_many_at_equal(s, frames) ==
    frames >= (IF s.getbuf_last >= 0 THEN s.getbuf_last ELSE 0 - s.getbuf_last)

\* the magnitude recorded at acquisition
getbuf_magnitude(s) == IF s.getbuf_last >= 0 THEN s.getbuf_last ELSE 0 - s.getbuf_last

\* line 1395
release_too_many(s, frames) == frames > getbuf_magnitude(s)

\* the commit of lines 1398-1416 with the write offset not wrapped, and
\* nothing copied
release_render_commit_no_wrap(s, frames, flags, tmp) ==
    [s EXCEPT !.wri_offs_frames = s.wri_offs_frames + frames,
              !.held_frames = s.held_frames + frames,
              !.written_frames = s.written_frames + frames,
              !.getbuf_last = 0]

\* the commit of lines 1398-1416 with the write offset left where it was
release_render_commit_in_place(s, frames, flags, tmp) ==
    [s EXCEPT !.held_frames = s.held_frames + frames,
              !.written_frames = s.written_frames + frames,
              !.getbuf_last = 0]

\* lines 1398-1416; tmp is the content of tmp_buffer
release_render_commit(s, frames, flags, tmp) ==
    LET silent == flags = AUDCLNT_BUFFERFLAGS_SILENT
        local1 == IF s.getbuf_last >= 0 /\ silent
                  THEN silence_buffer(s, s.local_buffer, s.wri_offs_frames, frames)
                  ELSE s.local_buffer
        tmp1 == IF s.getbuf_last < 0 /\ silent
                THEN silence_buffer(s, tmp, 0, frames)
                ELSE tmp
        local2 == IF s.getbuf_last < 0
                  THEN ca_wrap_buffer(local1, s.wri_offs_frames, s.bufsize_frames,
                                      tmp1, frames)
                  ELSE local1
    IN  [s EXCEPT !.local_buffer = local2,
                  !.wri_offs_frames = (s.wri_offs_frames + frames) % s.bufsize_frames,
                  !.held_frames = s.held_frames + frames,
                  !.written_frames = s.written_frames + frames,
                  !.getbuf_last = 0]

\* release_render_buffer with a zero-frame release that leaves the marker
release_render_buffer_keeps_marker(s, frames, flags, tmp) ==
    IF frames = 0
    THEN [stream |-> s, result |-> S_OK]
    ELSE IF s.getbuf_last = 0
    THEN [stream |-> s, result |-> AUDCLNT_E_OUT_OF_ORDER]
    ELSE IF frames > (IF s.getbuf_last >= 0 THEN s.getbuf_last ELSE 0 - s.getbuf_last)
    THEN [stream |-> s, result |-> AUDCLNT_E_INVALID_SIZE]
    ELSE [stream |-> [s EXCEPT !.wri_offs_frames =
                                   (s.wri_offs_frames + frames) % s.bufsize_frames,
                               !.held_frames = s.held_frames + frames,
                               !.written_frames = s.written_frames + frames,
                               !.getbuf_last = 0],
          result |-> S_OK]

release_render_buffer(s, frames, flags, tmp) ==
    IF frames = 0
    THEN [stream |-> [s EXCEPT !.getbuf_last = 0], result |-> S_OK]
    ELSE IF s.getbuf_last = 0
    THEN [stream |-> s, result |-> AUDCLNT_E_OUT_OF_ORDER]
    ELSE IF release_too_many(s, frames)
    THEN [stream |-> s, result |-> AUDCLNT_E_INVALID_SIZE]
    ELSE [stream |-> release_render_commit(s, frames, flags, tmp), result |-> S_OK]

----------------------------------------------------------------------------
(* get_capture_buffer, release_capture_buffer, get_next_packet_size *)

\* line 1451; chunk_frames = bufsize_frames - lcl_offs_frames is a UINT32:
\* with lcl_offs_frames beyond bufsize_frames it wraps to a number near 2^32,
\* above any period
capture_wraps(s) ==
    IF s.lcl_offs_frames <= s.bufsize_frames
    THEN s.bufsize_frames - s.lcl_offs_frames < s.period_frames
    ELSE FALSE

\* the test of line 1444 off by one
capture_empty_at_period(s) == s.held_frames <= s.period_frames

\* line 1444
capture_empty(s) == s.held_frames < s.period_frames

\* get_capture_buffer after capture_resample ran
get_capture_buffer_drained(s) ==
    IF capture_empty(s)
    THEN [stream |-> s, result |-> AUDCLNT_S_BUFFER_EMPTY, frames |-> 0, data |-> NoData]
    ELSE IF capture_wraps(s)
    THEN LET chunk == s.bufsize_frames - s.lcl_offs_frames
         IN  [stream |-> [s EXCEPT !.tmp_buffer = TRUE,
                                   !.getbuf_last = s.period_frames],
              result |-> S_OK, frames |-> s.period_frames,
              data |-> [buf |-> "tmp_buffer", offs |-> 0, pos |-> s.lcl_offs_frames,
                        frames |-> s.period_frames,
                        data |-> slice(s.local_buffer, s.lcl_offs_frames, chunk)
                                 \o slice(s.local_buffer, 0, s.period_frames - chunk)]]
    ELSE [stream |-> [s EXCEPT !.getbuf_last = s.period_frames],
          result |-> S_OK, frames |-> s.period_frames,
          data |-> [buf |-> "local_buffer", offs |-> s.lcl_offs_frames,
                    pos |-> s.lcl_offs_frames, frames |-> s.period_frames,
                    data |-> slice(s.local_buffer, s.lcl_offs_frames, s.period_frames)]]

\* get_capture_buffer without the test of line 1435
get_capture_buffer_unordered(s) ==
    { get_capture_buffer_drained(s1) : s1 \in capture_resample(s) }

get_capture_buffer(s) ==
    IF s.getbuf_last # 0
    THEN {[stream |-> s, result |-> AUDCLNT_E_OUT_OF_ORDER, frames |-> 0, data |-> NoData]}
    ELSE { get_capture_buffer_drained(s1) : s1 \in capture_resample(s) }

\* release_capture_buffer taking any count up to the one handed out, as
\* release_render_buffer does
release_capture_buffer_partial(s, done) ==
    IF done = 0
    THEN [stream |-> [s EXCEPT !.getbuf_last = 0], result |-> S_OK]
    ELSE IF s.getbuf_last = 0
    THEN [stream |-> s, result |-> AUDCLNT_E_OUT_OF_ORDER]
    ELSE IF s.getbuf_last < done
    THEN [stream |-> s, result |-> AUDCLNT_E_INVALID_SIZE]
    ELSE [stream |-> [s EXCEPT !.written_frames = s.written_frames + done,
                               !.held_frames = s.held_frames - done,
                               !.lcl_offs_frames =
                                   (s.lcl_offs_frames + done) % s.bufsize_frames,
                               !.getbuf_last = 0],
          result |-> S_OK]

\* release_capture_buffer with the read offset not wrapped
release_capture_buffer_no_wrap(s, done) ==
    IF done = 0
    THEN [stream |-> [s EXCEPT !.getbuf_last = 0], result |-> S_OK]
    ELSE IF s.getbuf_last = 0
    THEN [stream |-> s, result |-> AUDCLNT_E_OUT_OF_ORDER]
    ELSE IF s.getbuf_last # done
    THEN [stream |-> s, result |-> AUDCLNT_E_INVALID_SIZE]
    ELSE [stream |-> [s EXCEPT !.written_frames = s.written_frames + done,
                               !.held_frames = s.held_frames - done,
                               !.lcl_offs_frames = s.lcl_offs_frames + done,
                               !.getbuf_last = 0],
          result |-> S_OK]

\* release_capture_buffer without the test of line 1491
release_capture_buffer_unchecked(s, done) ==
    IF done = 0
    THEN [stream |-> [s EXCEPT !.getbuf_last = 0], result |-> S_OK]
    ELSE IF s.getbuf_last # done
    THEN [stream |-> s, result |-> AUDCLNT_E_INVALID_SIZE]
    ELSE [stream |-> [s EXCEPT !.written_frames = s.written_frames + done,
                               !.held_frames = s.held_frames - done,
                               !.lcl_offs_frames =
                                   (s.lcl_offs_frames + done) % s.bufsize_frames,
                               !.getbuf_last = 0],
          result |-> S_OK]

release_capture_buffer(s, done) ==
    IF done = 0
    THEN [stream |-> [s EXCEPT !.getbuf_last = 0], result |-> S_OK]
    ELSE IF s.getbuf_last = 0
    THEN [stream |-> s, result |-> AUDCLNT_E_OUT_OF_ORDER]
    ELSE IF s.getbuf_last # done
    THEN [stream |-> s, result |-> AUDCLNT_E_INVALID_SIZE]
    ELSE [stream |-> [s EXCEPT !.written_frames = s.written_frames + done,
                               !.held_frames = s.held_frames - done,
                               !.lcl_offs_frames =
                                   (s.lcl_offs_frames + done) % s.bufsize_frames,
                               !.getbuf_last = 0],
          result |-> S_OK]

get_next_packet_size(s) ==
    { [stream |-> s1,
       frames |-> IF s1.held_frames >= s1.period_frames THEN s1.period_frames ELSE 0] :
        s1 \in capture_resample(s) }

\* *params->pos; a negative number stands for the wrapped UINT64
get_position(s) ==
    IF s.share = AUDCLNT_SHAREMODE_SHARED
    THEN (s.written_frames - s.held_frames) * s.fmt.nBlockAlign
    ELSE s.written_frames - s.held_frames

----------------------------------------------------------------------------
(* The client's side of an acquisition *)

\* the frames a render client writes: it numbers them on from the stream
\* position, so that order, loss and duplication show in the values
client_frames(s, n) == [j \in 1..n |-> s.written_frames + j]

\* the client fills the region it was handed: local_buffer itself for a
\* direct acquisition, tmp_buffer (whose content is handed.data) otherwise
client_fill(s, h) ==
    IF h.buf = "local_buffer"
    THEN [s EXCEPT !.local_buffer =
             memcpy(s.local_buffer, h.offs, as_buffer(client_frames(s, h.frames)),
                    0, h.frames)]
    ELSE s

\* what release_render_buffer(frames, flags) commits of the client's buffer
committed_frames(s, h, frames, flags) ==
    IF flags = AUDCLNT_BUFFERFLAGS_SILENT
    THEN [j \in 1..frames |-> silence_value(s.fmt)]
    ELSE SubSeq(h.data, 1, frames)

----------------------------------------------------------------------------
(* Actions: one per handler *)

Start ==
    /\ UNCHANGED lvars
    /\ LET r == start(stream)
       IN  /\ stream' = r.stream
           /\ hw_out' = <<>>
           /\ hw_expect' = <<>>
           /\ UNCHANGED <<handed, pending, released_sum, copied_sum>>

Stop ==
    /\ UNCHANGED lvars
    /\ LET r == stop(stream)
       IN  /\ stream' = r.stream
           /\ hw_out' = <<>>
           /\ hw_expect' = <<>>
           /\ UNCHANGED <<handed, pending, released_sum, copied_sum>>

Reset ==
    /\ UNCHANGED lvars
    /\ LET r == reset(stream)
       IN  /\ r.stream.written_frames <= MaxWritten
           /\ stream' = r.stream
           /\ hw_out' = <<>>
           /\ hw_expect' = <<>>
           /\ pending' = IF r.result = S_OK THEN <<>> ELSE pending
           /\ released_sum' = IF r.result = S_OK THEN 0 ELSE released_sum
           /\ copied_sum' = IF r.result = S_OK THEN 0 ELSE copied_sum
           /\ UNCHANGED handed

GetCurrentPadding ==
    /\ UNCHANGED lvars
    /\ \E s1 \in get_current_padding_nolock(stream) :
           /\ stream' = s1
           /\ hw_out' = <<>>
           /\ hw_expect' = <<>>
           /\ UNCHANGED <<handed, pending, released_sum, copied_sum>>

GetPosition ==
    /\ UNCHANGED lvars
    /\ /\ hw_out' = <<>>
       /\ hw_expect' = <<>>
       /\ UNCHANGED <<stream, handed, pending, released_sum, copied_sum>>

GetRenderBuffer ==
    /\ UNCHANGED lvars
    /\ /\ stream.flow = eRender
       /\ \E frames \in 0..MaxFrames, alloc_ok \in BOOLEAN :
          \E r \in get_render_buffer(stream, frames, alloc_ok) :
              /\ stream' = r.stream
              /\ handed' = IF r.data.buf # "none" THEN r.data ELSE handed
              /\ hw_out' = <<>>
              /\ hw_expect' = <<>>
              /\ UNCHANGED <<pending, released_sum, copied_sum>>

ClientWrite ==
    /\ UNCHANGED lvars
    /\ /\ stream.flow = eRender
       /\ stream.getbuf_last # 0
       /\ handed.buf # "none"
       /\ stream' = client_fill(stream, handed)
       /\ handed' = [handed EXCEPT !.data = client_frames(stream, handed.frames)]
       /\ hw_out' = <<>>
       /\ hw_expect' = <<>>
       /\ UNCHANGED <<pending, released_sum, copied_sum>>

ReleaseRenderBuffer ==
    /\ UNCHANGED lvars
    /\ /\ stream.flow = eRender
       /\ \E frames \in 0..MaxFrames,
             flags \in {NoFlags, AUDCLNT_BUFFERFLAGS_SILENT} :
          LET r == release_render_buffer(stream, frames, flags, as_buffer(handed.data))
              done == r.result = S_OK /\ frames > 0
          IN  /\ stream.written_frames + frames <= MaxWritten
              /\ stream' = r.stream
              /\ handed' = IF r.stream.getbuf_last = 0 THEN NoData ELSE handed
              /\ hw_out' = <<>>
              /\ hw_expect' = <<>>
              /\ pending' = IF done
                            THEN pending \o committed_frames(stream, handed, frames, flags)
                            ELSE pending
              /\ released_sum' = IF done THEN released_sum + frames ELSE released_sum
              /\ UNCHANGED copied_sum

GetCaptureBuffer ==
    /\ UNCHANGED lvars
    /\ /\ stream.flow = eCapture
       /\ \E r \in get_capture_buffer(stream) :
              /\ stream' = r.stream
              /\ handed' = IF r.data.buf # "none" THEN r.data ELSE handed
              /\ hw_out' = <<>>
              /\ hw_expect' = <<>>
              /\ UNCHANGED <<pending, released_sum, copied_sum>>

ReleaseCaptureBuffer ==
    /\ UNCHANGED lvars
    /\ /\ stream.flow = eCapture
       /\ \E done \in 0..MaxFrames :
          LET r == release_capture_buffer(stream, done)
          IN  /\ stream.written_frames + done <= MaxWritten
              /\ stream' = r.stream
              /\ handed' = IF r.stream.getbuf_last = 0 THEN NoData ELSE handed
              /\ hw_out' = <<>>
              /\ hw_expect' = <<>>
              /\ UNCHANGED <<pending, released_sum, copied_sum>>

GetNextPacketSize ==
    /\ UNCHANGED lvars
    /\ /\ stream.flow = eCapture
       /\ \E r \in get_next_packet_size(stream) :
              /\ stream' = r.stream
              /\ hw_out' = <<>>
              /\ hw_expect' = <<>>
              /\ UNCHANGED <<handed, pending, released_sum, copied_sum>>

RenderCallback ==
    /\ UNCHANGED lvars
    /\ /\ stream.flow = eRender
       /\ \E nframes \in 0..MaxN :
          LET taken == IF stream.playing THEN min(nframes, Len(pending)) ELSE 0
          IN  /\ stream' = ca_render_cb(stream, nframes)
              /\ hw_out' = render_cb_data(stream, nframes)
              /\ hw_expect' = SubSeq(pending, 1, taken)
              /\ pending' = SubSeq(pending, taken + 1, Len(pending))
              /\ copied_sum' = copied_sum + render_cb_frames(stream, nframes)
              /\ UNCHANGED <<handed, released_sum>>

CaptureCallback ==
    /\ UNCHANGED lvars
    /\ /\ stream.flow = eCapture
       /\ \E nframes \in 0..MaxN, sc \in {noErr, "kAudioUnitErr"} :
              /\ stream' = ca_capture_cb(stream, nframes, sc)
              /\ hw_out' = <<>>
              /\ hw_expect' = <<>>
              /\ UNCHANGED <<handed, pending, released_sum, copied_sum>>

Next ==
    \/ Start
    \/ Stop
    \/ Reset
    \/ GetCurrentPadding
    \/ GetPosition
    \/ GetRenderBuffer
    \/ ClientWrite
    \/ ReleaseRenderBuffer
    \/ GetCaptureBuffer
    \/ ReleaseCaptureBuffer
    \/ GetNextPacketSize
    \/ RenderCallback
    \/ CaptureCallback

Spec == Init /\ [][Next]_vars

\* a render stream alone
NextRender ==
    \/ Start
    \/ Stop
    \/ Reset
    \/ GetCurrentPadding
    \/ GetPosition
    \/ GetRenderBuffer
    \/ ClientWrite
    \/ ReleaseRenderBuffer
    \/ RenderCallback

SpecRender == InitRender /\ [][NextRender]_vars

\* a callback of one frame or more on a playing stream that holds frames
RenderDelivery ==
    /\ RenderCallback
    /\ stream.playing
    /\ stream.held_frames > 0
    /\ stream'.held_frames < stream.held_frames

\* a render stream whose audio unit keeps calling ca_render_cb
SpecRenderLive ==
    /\ InitRender
    /\ [][NextRender]_vars
    /\ WF_vars(RenderDelivery)

\* a capture stream alone
NextCapture ==
    \/ Start
    \/ Stop
    \/ Reset
    \/ GetCurrentPadding
    \/ GetPosition
    \/ GetCaptureBuffer
    \/ ReleaseCaptureBuffer
    \/ GetNextPacketSize
    \/ CaptureCallback

SpecCapture == InitCapture /\ [][NextCapture]_vars

----------------------------------------------------------------------------
(* The lock: every function statement by statement *)

\* The steps of a function: taking and releasing stream->lock, an access to
\* fields f of the stream, a write that sets fields f up in create_stream,
\* starting and stopping the audio unit; l is the line of the statement.
LockAt(l) == [k |-> "lock", f |-> {}, l |-> l]
UnlockAt(l) == [k |-> "unlock", f |-> {}, l |-> l]
Access(f, l) == [k |-> "access", f |-> f, l |-> l]
Setup(f, l) == [k |-> "setup", f |-> f, l |-> l]
UnitStart(l) == [k |-> "unit_start", f |-> {}, l |-> l]
UnitStop(l) == [k |-> "unit_stop", f |-> {}, l |-> l]

\* the fields capture_resample and feed_cb work on
drain_fields ==
    {"cap_buffer", "cap_offs_frames", "cap_held_frames", "local_buffer",
     "wri_offs_frames", "lcl_offs_frames", "held_frames"}

\* a call of capture_resample, the converter and feed_cb run inside it
Drain(l) == [k |-> "drain", f |-> drain_fields, l |-> l]

\* create_stream from AudioOutputUnitStart on: the unit runs, then the rings
\* are set up; the second path is the failed allocation of local_buffer
create_stream_paths(p) ==
    { <<UnitStart(676), Setup({"local_buffer"}, 688)>>
          \o (IF p.flow = eCapture
              THEN <<Setup({"cap_bufsize_frames", "cap_buffer"}, 693)>>
              ELSE <<>>),
      <<UnitStart(676), UnitStop(699)>> }

release_stream_paths ==
    { <<UnitStop(714), Access({"cap_buffer", "local_buffer"}, 722)>> }

ca_render_cb_paths ==
    { <<LockAt(332), Access({"playing"}, 334), UnlockAt(356)>>,
      <<LockAt(332), Access({"playing"}, 334),
        Access({"lcl_offs_frames", "held_frames", "local_buffer"}, 345),
        Access({"lcl_offs_frames", "held_frames"}, 349), UnlockAt(356)>> }

\* ca_capture_cb converting what it stored before it returns
ca_capture_cb_paths_draining ==
    { <<LockAt(389), Access({"cap_offs_frames", "cap_held_frames", "cap_bufsize_frames"}, 391),
        Access({"playing"}, 397), UnlockAt(410)>>,
      <<LockAt(389), Access({"cap_offs_frames", "cap_held_frames", "cap_bufsize_frames"}, 391),
        Access({"playing"}, 397), Access({"playing", "cap_buffer"}, 420),
        Access({"cap_held_frames", "cap_offs_frames", "cap_bufsize_frames"}, 427),
        Drain(428), UnlockAt(430)>> }

ca_capture_cb_paths ==
    { <<LockAt(389), Access({"cap_offs_frames", "cap_held_frames", "cap_bufsize_frames"}, 391),
        Access({"playing"}, 397), UnlockAt(410)>>,
      <<LockAt(389), Access({"cap_offs_frames", "cap_held_frames", "cap_bufsize_frames"}, 391),
        Access({"playing"}, 397), Access({"playing"}, 414), UnlockAt(430)>>,
      <<LockAt(389), Access({"cap_offs_frames", "cap_held_frames", "cap_bufsize_frames"}, 391),
        Access({"playing"}, 397), Access({"playing", "cap_buffer"}, 420),
        Access({"cap_held_frames", "cap_offs_frames", "cap_bufsize_frames"}, 427),
        UnlockAt(430)>> }

get_buffer_size_paths ==
    { <<LockAt(1147), Access({"bufsize_frames"}, 1148), UnlockAt(1149)>> }

get_latency_paths ==
    { <<LockAt(1214), UnlockAt(1224)>>,
      <<LockAt(1214), UnlockAt(1231)>>,
      <<LockAt(1214), Access({"fmt", "period_ms"}, 1239), UnlockAt(1241)>> }

get_current_padding_paths(flow) ==
    { <<LockAt(1257),
        IF flow = eCapture THEN Drain(1258) ELSE Access({"held_frames"}, 1258),
        UnlockAt(1259)>> }

start_paths ==
    { <<LockAt(1269), Access({"playing"}, 1274), UnlockAt(1278)>> }

stop_paths ==
    { <<LockAt(1288), Access({"playing"}, 1293), UnlockAt(1297)>> }

reset_paths ==
    { <<LockAt(1307), Access({"playing"}, 1309), UnlockAt(1326)>>,
      <<LockAt(1307), Access({"playing"}, 1309), Access({"getbuf_last"}, 1311),
        UnlockAt(1326)>>,
      <<LockAt(1307), Access({"playing"}, 1309), Access({"getbuf_last"}, 1311),
        Access({"written_frames", "held_frames", "lcl_offs_frames", "wri_offs_frames",
                "cap_offs_frames", "cap_held_frames"}, 1322),
        UnlockAt(1326)>> }

\* the exits: out of order, zero frames, too large, out of memory, success
get_render_buffer_paths ==
    { <<LockAt(1336), Access({"held_frames"}, 1338), Access({"getbuf_last"}, 1340),
        UnlockAt(1377)>>,
      <<LockAt(1336), Access({"held_frames"}, 1338), Access({"getbuf_last"}, 1340),
        Access({"bufsize_frames"}, 1348), UnlockAt(1377)>>,
      <<LockAt(1336), Access({"held_frames"}, 1338), Access({"getbuf_last"}, 1340),
        Access({"bufsize_frames"}, 1348),
        Access({"wri_offs_frames", "tmp_buffer"}, 1360), UnlockAt(1377)>>,
      <<LockAt(1336), Access({"held_frames"}, 1338), Access({"getbuf_last"}, 1340),
        Access({"bufsize_frames"}, 1348),
        Access({"wri_offs_frames", "tmp_buffer", "local_buffer", "getbuf_last"}, 1373),
        UnlockAt(1377)>> }

release_render_buffer_paths ==
    { <<LockAt(1388), Access({"getbuf_last"}, 1395), UnlockAt(1421)>>,
      <<LockAt(1388), Access({"getbuf_last"}, 1395),
        Access({"local_buffer", "tmp_buffer", "wri_offs_frames", "held_frames",
                "written_frames", "getbuf_last"}, 1416),
        UnlockAt(1421)>> }

\* the exits: out of order, empty, success
get_capture_buffer_paths ==
    { <<LockAt(1433), Access({"getbuf_last"}, 1435), UnlockAt(1477)>>,
      <<LockAt(1433), Access({"getbuf_last"}, 1435), Drain(1440),
        Access({"held_frames"}, 1444), UnlockAt(1477)>>,
      <<LockAt(1433), Access({"getbuf_last"}, 1435), Drain(1440),
        Access({"held_frames"}, 1444),
        Access({"lcl_offs_frames", "local_buffer", "tmp_buffer", "getbuf_last",
                "written_frames"}, 1468),
        UnlockAt(1477)>> }

release_capture_buffer_paths ==
    { <<LockAt(1486), Access({"getbuf_last"}, 1492), UnlockAt(1504)>>,
      <<LockAt(1486), Access({"getbuf_last"}, 1492),
        Access({"written_frames", "held_frames", "lcl_offs_frames", "getbuf_last"}, 1500),
        UnlockAt(1504)>> }

get_next_packet_size_paths ==
    { <<LockAt(1514), Drain(1516), Access({"held_frames"}, 1518),
        UnlockAt(1523)>> }

get_position_paths ==
    { <<LockAt(1535), Access({"written_frames", "held_frames"}, 1537), UnlockAt(1547)>> }

get_frequency_paths == { <<Access({"share", "fmt"}, 1558)>> }

is_started_paths == { <<Access({"playing"}, 1572)>> }

set_volumes_paths == { <<Access({"fmt", "unit"}, 1603)>> }

\* the calls a client makes on a stream create_stream has returned
ClientCalls(flow) ==
    [op : {"get_buffer_size"}, path : get_buffer_size_paths]
    \cup [op : {"get_latency"}, path : get_latency_paths]
    \cup [op : {"get_current_padding"}, path : get_current_padding_paths(flow)]
    \cup [op : {"start"}, path : start_paths]
    \cup [op : {"stop"}, path : stop_paths]
    \cup [op : {"reset"}, path : reset_paths]
    \cup [op : {"get_position"}, path : get_position_paths]
    \cup [op : {"get_frequency"}, path : get_frequency_paths]
    \cup [op : {"is_started"}, path : is_started_paths]
    \cup [op : {"set_volumes"}, path : set_volumes_paths]
    \cup [op : {"release_stream"}, path : release_stream_paths]
    \cup (IF flow = eRender
          THEN [op : {"get_render_buffer"}, path : get_render_buffer_paths]
               \cup [op : {"release_render_buffer"}, path : release_render_buffer_paths]
          ELSE [op : {"get_capture_buffer"}, path : get_capture_buffer_paths]
               \cup [op : {"release_capture_buffer"}, path : release_capture_buffer_paths]
               \cup [op : {"get_next_packet_size"}, path : get_next_packet_size_paths])

\* the callback the audio unit was given
HardwareCalls(flow) ==
    IF flow = eRender
    THEN [op : {"ca_render_cb"}, path : ca_render_cb_paths]
    ELSE [op : {"ca_capture_cb"}, path : ca_capture_cb_paths]

\* the struct when create_stream reaches AudioOutputUnitStart: calloc left
\* the rings NULL and cap_bufsize_frames 0
stream_at_unit_start(p) ==
    [create_stream(p) EXCEPT !.local_buffer = as_buffer(<<>>),
                             !.cap_buffer = as_buffer(<<>>),
                             !.cap_bufsize_frames = 0]

\* create_stream is about to start the audio unit
InitLock ==
    /\ \E p \in StreamParams :
           /\ params = p
           /\ stream = stream_at_unit_start(p)
           /\ \E path \in create_stream_paths(p) :
                  pc = [t \in Threads |->
                           IF t = "client"
                           THEN [op |-> "create_stream", path |-> path, at |-> 1]
                           ELSE Idle]
    /\ lock = 0
    /\ unit = "none"
    /\ handed = NoData
    /\ hw_out = <<>>
    /\ hw_expect = <<>>
    /\ pending = <<>>
    /\ released_sum = 0
    /\ copied_sum = 0

\* the statement thread t is at
at_end(t) == pc[t].at > Len(pc[t].path)
statement(t) == pc[t].path[pc[t].at]
running(t) == pc[t].op # "idle" /\ ~at_end(t)
advance(t) == pc' = [pc EXCEPT ![t].at = pc[t].at + 1]

\* the client thread enters a function of the driver
ClientCall ==
    /\ pc["client"] = Idle
    /\ unit = "started"
    /\ \E c \in ClientCalls(stream.flow) :
           pc' = [pc EXCEPT !["client"] = [op |-> c.op, path |-> c.path, at |-> 1]]
    /\ UNCHANGED <<stream, params, lock, unit, hvars>>

\* the running audio unit invokes its callback
HardwareCall ==
    /\ pc["hw"] = Idle
    /\ unit = "started"
    /\ \E c \in HardwareCalls(stream.flow) :
           pc' = [pc EXCEPT !["hw"] = [op |-> c.op, path |-> c.path, at |-> 1]]
    /\ UNCHANGED <<stream, params, lock, unit, hvars>>

\* OSSpinLockLock: the thread spins until it finds the lock free
TakeLock ==
    \E t \in Threads :
        /\ running(t)
        /\ statement(t).k = "lock"
        /\ lock = 0
        /\ lock' = 1
        /\ advance(t)
        /\ UNCHANGED <<stream, params, unit, hvars>>

\* OSSpinLockUnlock
ReleaseLock ==
    \E t \in Threads :
        /\ running(t)
        /\ statement(t).k = "unlock"
        /\ lock' = 0
        /\ advance(t)
        /\ UNCHANGED <<stream, params, unit, hvars>>

\* a statement that reads or writes fields of the stream
AccessFields ==
    \E t \in Threads :
        /\ running(t)
        /\ statement(t).k = "access"
        /\ advance(t)
        /\ UNCHANGED <<stream, params, lock, unit, hvars>>

\* capture_resample runs to its end
RunDrain ==
    \E t \in Threads :
        /\ running(t)
        /\ statement(t).k = "drain"
        /\ advance(t)
        /\ UNCHANGED <<stream, params, lock, unit, hvars>>

\* a statement of create_stream that sets fields up
SetupFields ==
    \E t \in Threads :
        /\ running(t)
        /\ statement(t).k = "setup"
        /\ stream' = [x \in DOMAIN stream |->
                         IF x \in statement(t).f
                         THEN create_stream(params)[x]
                         ELSE stream[x]]
        /\ advance(t)
        /\ UNCHANGED <<params, lock, unit, hvars>>

\* AudioOutputUnitStart
StartUnit ==
    \E t \in Threads :
        /\ running(t)
        /\ statement(t).k = "unit_start"
        /\ unit' = "started"
        /\ advance(t)
        /\ UNCHANGED <<stream, params, lock, hvars>>

\* AudioOutputUnitStop and AudioComponentInstanceDispose: they return once
\* no callback is in progress
StopUnit ==
    \E t \in Threads :
        /\ running(t)
        /\ statement(t).k = "unit_stop"
        /\ pc["hw"] = Idle
        /\ unit' = "disposed"
        /\ advance(t)
        /\ UNCHANGED <<stream, params, lock, hvars>>

\* the function returns
Return ==
    \E t \in Threads :
        /\ pc[t].op # "idle"
        /\ at_end(t)
        /\ pc' = [pc EXCEPT ![t] = Idle]
        /\ UNCHANGED <<stream, params, lock, unit, hvars>>

NextLock ==
    \/ ClientCall
    \/ HardwareCall
    \/ TakeLock
    \/ ReleaseLock
    \/ AccessFields
    \/ RunDrain
    \/ SetupFields
    \/ StartUnit
    \/ StopUnit
    \/ Return

SpecLock == InitLock /\ [][NextLock]_vars

----------------------------------------------------------------------------
(* The loop of capture_resample pass by pass *)

\* capture streams to drain: those of StreamParams and one whose period is
\* shorter than a frame, so that create_stream computes period_frames 0
DrainParams ==
    { p \in StreamParams : p.flow = eCapture }
    \cup { [flow |-> eCapture, share |-> AUDCLNT_SHAREMODE_SHARED,
            period |-> 100, duration |-> 625,
            rate |-> 48000, dev_rate |-> 44100, channels |-> 2, bits |-> 16,
            pcm |-> TRUE] }

\* AudioConverterFillComplexBuffer as its interface leaves it: asked for
\* wanted frames it requests any number req of raw frames through feed_cb,
\* none included, and returns a status and at most wanted frames
converter_pulls(s, wanted) ==
    { x \in [req : 0..(s.cap_held_frames + 1),
             sc : {noErr, "kAudioConverterErr"},
             out : 0..wanted] :
        x.sc # noErr => x.out = 0 }

\* the client thread inside capture_resample, under the lock its caller took;
\* at tells an odd pass from an even one
Draining(k) == [op |-> "capture_resample", path |-> <<>>, at |-> k]

draining == pc["client"].op = "capture_resample"

\* a started capture stream after its first callback, entering a drain
InitDrain ==
    /\ \E p \in DrainParams :
           /\ params = p
           /\ \E nframes \in 0..create_stream(p).cap_bufsize_frames :
                  stream = ca_capture_cb([create_stream(p) EXCEPT !.playing = TRUE],
                                         nframes, noErr)
    /\ pc = [t \in Threads |-> IF t = "client" THEN Draining(0) ELSE Idle]
    /\ lock = 1
    /\ unit = "started"
    /\ handed = NoData
    /\ hw_out = <<>>
    /\ hw_expect = <<>>
    /\ pending = <<>>
    /\ released_sum = 0
    /\ copied_sum = 0

\* lines 1103-1138: the loop condition holds and the converter succeeds
DrainPass ==
    /\ draining
    /\ resample_wanted(stream)
    /\ \E r \in resample_step(stream, converter_pulls(stream, stream.period_frames)) :
           /\ r.sc = noErr
           /\ stream' = r.stream
    /\ pc' = [pc EXCEPT !["client"] = Draining(1 - pc["client"].at)]
    /\ UNCHANGED <<params, lock, unit, hvars>>

\* lines 1121-1124: the converter fails, break; the caller unlocks and returns
DrainBreak ==
    /\ draining
    /\ resample_wanted(stream)
    /\ \E r \in resample_step(stream, converter_pulls(stream, stream.period_frames)) :
           /\ r.sc # noErr
           /\ stream' = r.stream
    /\ pc' = [pc EXCEPT !["client"] = Idle]
    /\ lock' = 0
    /\ UNCHANGED <<params, unit, hvars>>

\* line 1103: the loop condition fails; the caller unlocks and returns
DrainDone ==
    /\ draining
    /\ ~resample_wanted(stream)
    /\ pc' = [pc EXCEPT !["client"] = Idle]
    /\ lock' = 0
    /\ UNCHANGED <<stream, params, unit, hvars>>

\* get_current_padding takes the lock and calls capture_resample
DrainCall ==
    /\ pc["client"] = Idle
    /\ lock = 0
    /\ lock' = 1
    /\ pc' = [pc EXCEPT !["client"] = Draining(0)]
    /\ UNCHANGED <<stream, params, unit, hvars>>

\* ca_capture_cb runs while the lock is free
DrainDeliver ==
    /\ lock = 0
    /\ \E nframes \in 1..MaxN : stream' = ca_capture_cb(stream, nframes, noErr)
    /\ UNCHANGED <<params, lock, unit, pc, hvars>>

NextDrain ==
    \/ DrainPass
    \/ DrainBreak
    \/ DrainDone
    \/ DrainCall
    \/ DrainDeliver

\* the client thread, once inside capture_resample, keeps executing it
SpecDrain ==
    /\ InitDrain
    /\ [][NextDrain]_vars
    /\ WF_vars(DrainPass \/ DrainBreak \/ DrainDone)

----------------------------------------------------------------------------
(* Properties *)

\* the n frames of a ring of size frames read in ring order from offs
ring_read(buffer, offs, size, n) ==
    [j \in 1..n |-> peek(buffer, (offs + j - 1) % size)]

\* no acquisition is outstanding / one is
nothing_outstanding == stream.getbuf_last = 0
outstanding == stream.getbuf_last # 0

FrameCounts == 0..MaxFrames
Flags == {NoFlags, AUDCLNT_BUFFERFLAGS_SILENT}

\* C1: on a render stream held_frames is the sum of the frame counts of the
\* successful releases minus the sum of the frames the render callback copied
\* out since the last Reset, and never exceeds bufsize_frames; as long as no
\* callback copied anything, held_frames is exactly the sum released.
C1_HeldAccounting ==
    stream.flow = eRender =>
        /\ stream.held_frames = released_sum - copied_sum
        /\ stream.held_frames <= stream.bufsize_frames
        /\ stream.held_frames >= 0
        /\ (copied_sum = 0 => stream.held_frames = released_sum)

\* releases and callbacks have both moved frames and the ring is full again
C1_Witness ==
    /\ stream.flow = eRender
    /\ copied_sum > 0
    /\ released_sum > stream.bufsize_frames
    /\ stream.held_frames = stream.bufsize_frames

\* C2: the frames a render client committed are the frames the render
\* callback delivers while the stream plays: the ring holds, in ring order
\* from lcl_offs_frames, exactly the committed frames not yet delivered, and
\* each callback hands the hardware the oldest of them, in the order of
\* commit, followed by silence; this across the wrap of the ring and for
\* direct and indirect acquisitions alike.
C2_RoundTrip ==
    stream.flow = eRender =>
        /\ Len(pending) = stream.held_frames
        /\ ring_read(stream.local_buffer, stream.lcl_offs_frames,
                     stream.bufsize_frames, stream.held_frames) = pending
        /\ Len(hw_out) >= Len(hw_expect)
        /\ SubSeq(hw_out, 1, Len(hw_expect)) = hw_expect
        /\ \A j \in (Len(hw_expect) + 1)..Len(hw_out) :
               hw_out[j] = silence_value(stream.fmt)

\* a callback has just delivered client frames read across the end of the ring
C2_Witness ==
    /\ stream.flow = eRender
    /\ Len(hw_expect) >= 2
    /\ stream.lcl_offs_frames > 0
    /\ stream.lcl_offs_frames < Len(hw_expect)
    /\ \E j \in 1..Len(hw_expect) : hw_expect[j] # silence_value(stream.fmt)

\* C3: while a render acquisition is outstanding, every further
\* get_render_buffer, whatever its frame count (0 included), fails with
\* AUDCLNT_E_OUT_OF_ORDER, hands out nothing and leaves the stream as it is.
C3_OneOutstanding ==
    (stream.flow = eRender /\ handed.buf # "none") =>
        /\ outstanding
        /\ getbuf_magnitude(stream) = handed.frames
        /\ \A frames \in FrameCounts, alloc_ok \in BOOLEAN :
           \A r \in get_render_buffer(stream, frames, alloc_ok) :
               /\ r.result = AUDCLNT_E_OUT_OF_ORDER
               /\ r.stream = stream
               /\ r.data = NoData

\* an acquisition through tmp_buffer is outstanding
C3_Witness ==
    /\ stream.flow = eRender
    /\ handed.buf = "tmp_buffer"
    /\ stream.getbuf_last < 0

client_tmp == as_buffer(handed.data)

\* C5 as claimed: with nothing outstanding, release_render_buffer and
\* release_capture_buffer fail with AUDCLNT_E_OUT_OF_ORDER for every frame
\* count, 0 included.
C5_AsClaimed ==
    nothing_outstanding =>
        \A frames \in FrameCounts :
            IF stream.flow = eRender
            THEN \A flags \in Flags :
                     release_render_buffer(stream, frames, flags, client_tmp).result
                         = AUDCLNT_E_OUT_OF_ORDER
            ELSE release_capture_buffer(stream, frames).result
                     = AUDCLNT_E_OUT_OF_ORDER

\* C5: with nothing outstanding, release_render_buffer and
\* release_capture_buffer fail with AUDCLNT_E_OUT_OF_ORDER for every non-zero
\* frame count; a frame count of 0 returns S_OK; either way the stream is
\* left as it was.
C5_ReleaseNothing ==
    nothing_outstanding =>
        \A frames \in FrameCounts :
            LET expected == IF frames = 0 THEN S_OK ELSE AUDCLNT_E_OUT_OF_ORDER
            IN  IF stream.flow = eRender
                THEN \A flags \in Flags :
                     LET r == release_render_buffer(stream, frames, flags, client_tmp)
                     IN  r.result = expected /\ r.stream = stream
                ELSE LET r == release_capture_buffer(stream, frames)
                     IN  r.result = expected /\ r.stream = stream

\* a capture stream that has frames to hand out and has released before,
\* with nothing outstanding
C5_Witness ==
    /\ stream.flow = eCapture
    /\ nothing_outstanding
    /\ stream.written_frames > 0
    /\ stream.held_frames >= stream.period_frames

\* C6: with a render acquisition of k frames outstanding, direct or
\* indirect, release_render_buffer with more than k frames fails with
\* AUDCLNT_E_INVALID_SIZE and leaves the stream, the acquisition included, as
\* it was; with 1 to k frames it succeeds and ends the acquisition.
C6_InvalidSize ==
    (stream.flow = eRender /\ handed.buf # "none") =>
        \A frames \in 1..(MaxFrames + 1), flags \in Flags :
            LET r == release_render_buffer(stream, frames, flags, client_tmp)
            IN  IF frames > handed.frames
                THEN r.result = AUDCLNT_E_INVALID_SIZE /\ r.stream = stream
                ELSE r.result = S_OK /\ r.stream.getbuf_last = 0

\* an indirect acquisition of two frames or more is outstanding
C6_Witness ==
    /\ stream.flow = eRender
    /\ handed.buf = "tmp_buffer"
    /\ handed.frames >= 2
    /\ stream.getbuf_last = 0 - handed.frames

\* C7: a successful release_render_buffer of fw > 0 frames (the step that
\* raises the sum released by fw) advances wri_offs_frames by fw modulo
\* bufsize_frames, raises held_frames and written_frames by fw, ends the
\* acquisition, and leaves lcl_offs_frames and playing alone.
C7_ReleaseEffect ==
    [][ (stream.flow = eRender /\ released_sum' > released_sum) =>
            LET fw == released_sum' - released_sum
            IN  /\ stream.getbuf_last # 0
                /\ fw <= handed.frames
                /\ stream'.wri_offs_frames =
                       (stream.wri_offs_frames + fw) % stream.bufsize_frames
                /\ stream'.held_frames = stream.held_frames + fw
                /\ stream'.written_frames = stream.written_frames + fw
                /\ stream'.getbuf_last = 0
                /\ stream'.lcl_offs_frames = stream.lcl_offs_frames
                /\ stream'.playing = stream.playing ]_vars

\* releases have taken the write offset round the ring of a playing stream
C7_Witness ==
    /\ stream.flow = eRender
    /\ stream.playing
    /\ nothing_outstanding
    /\ released_sum > stream.bufsize_frames
    /\ stream.wri_offs_frames = released_sum % stream.bufsize_frames
    /\ stream.wri_offs_frames > 0

\* the stream after a release of 0 frames
abandoned ==
    IF stream.flow = eRender
    THEN release_render_buffer(stream, 0, NoFlags, client_tmp)
    ELSE release_capture_buffer(stream, 0)

\* the outcomes of the acquire that follows an abandoned acquisition
reacquired ==
    IF stream.flow = eRender
    THEN UNION { get_render_buffer(abandoned.stream, handed.frames, alloc_ok) :
                     alloc_ok \in BOOLEAN }
    ELSE { [stream |-> a.stream, result |-> a.result, data |-> a.data] :
               a \in get_capture_buffer(abandoned.stream) }

\* a release of 0 frames ends the acquisition and touches nothing else
abandon_clears_only ==
    /\ abandoned.result = S_OK
    /\ abandoned.stream = [stream EXCEPT !.getbuf_last = 0]
    /\ stream.flow = eRender =>
           \A flags \in Flags :
               release_render_buffer(stream, 0, flags, client_tmp) = abandoned

\* C8 as claimed: a release of 0 frames while an acquisition is outstanding,
\* on a render or a capture stream, ends the acquisition and changes nothing
\* else, and the next acquire succeeds and hands out the same ring position.
C8_AsClaimed ==
    handed.buf # "none" =>
        /\ abandon_clears_only
        /\ \A a \in reacquired :
               /\ a.result = S_OK
               /\ a.data.frames = handed.frames
               /\ a.data.pos = handed.pos

\* C8: a release of 0 frames while an acquisition is outstanding, on a render
\* or a capture stream, ends the acquisition and changes nothing else, and
\* the next acquire succeeds; on a render stream it hands out the same ring
\* position; on a capture stream it hands out the read offset as the drain it
\* runs first leaves it, which is the same position unless a drain overran
\* the client ring since, the ring then being full.
C8_Abandon ==
    handed.buf # "none" =>
        /\ abandon_clears_only
        /\ \A a \in reacquired :
               /\ a.result = S_OK
               /\ a.data.frames = handed.frames
               /\ a.data.pos = IF stream.flow = eRender
                               THEN handed.pos ELSE a.stream.lcl_offs_frames
               /\ a.data.pos # handed.pos =>
                      a.stream.held_frames = a.stream.bufsize_frames

\* a capture acquisition is outstanding while raw frames wait and the client
\* ring is full, so that the drain of the next acquire overruns the ring
C8_Witness ==
    /\ stream.flow = eCapture
    /\ handed.buf # "none"
    /\ stream.cap_held_frames > 0
    /\ stream.held_frames = stream.bufsize_frames
    /\ \E a \in reacquired : a.data.pos # handed.pos

\* C9: with nothing outstanding, get_render_buffer of 0 frames returns S_OK,
\* hands out nothing and leaves the stream as it was, no acquisition
\* recorded: a release_render_buffer of k > 0 frames that follows fails with
\* AUDCLNT_E_OUT_OF_ORDER.
C9_ZeroAcquire ==
    (stream.flow = eRender /\ nothing_outstanding) =>
        \A alloc_ok \in BOOLEAN :
        \A r \in get_render_buffer(stream, 0, alloc_ok) :
            /\ r.result = S_OK
            /\ r.stream = stream
            /\ r.data = NoData
            /\ \A k \in 1..MaxFrames, flags \in Flags :
               LET q == release_render_buffer(r.stream, k, flags, client_tmp)
               IN  q.result = AUDCLNT_E_OUT_OF_ORDER /\ q.stream = r.stream

\* a playing render stream with frames held, room left and nothing outstanding
C9_Witness ==
    /\ stream.flow = eRender
    /\ nothing_outstanding
    /\ handed = NoData
    /\ stream.playing
    /\ stream.held_frames > 0
    /\ stream.held_frames < stream.bufsize_frames

\* C10: get_capture_buffer has three outcomes: with an acquisition
\* outstanding it fails with AUDCLNT_E_OUT_OF_ORDER, the drain not run and
\* the stream unchanged; else, the drain run, it returns
\* AUDCLNT_S_BUFFER_EMPTY with 0 frames if fewer than period_frames are held;
\* else it succeeds, handing out exactly period_frames frames from the read
\* offset and recording getbuf_last = period_frames.
C10_CaptureOutcomes ==
    stream.flow = eCapture =>
        \A r \in get_capture_buffer(stream) :
            IF outstanding
            THEN /\ r.result = AUDCLNT_E_OUT_OF_ORDER
                 /\ r.stream = stream
                 /\ r.frames = 0
            ELSE \E d \in capture_resample(stream) :
                     IF d.held_frames < d.period_frames
                     THEN /\ r.result = AUDCLNT_S_BUFFER_EMPTY
                          /\ r.frames = 0
                          /\ r.stream = d
                     ELSE /\ r.result = S_OK
                          /\ r.frames = d.period_frames
                          /\ r.stream.getbuf_last = d.period_frames
                          /\ [r.stream EXCEPT !.getbuf_last = 0, !.tmp_buffer = FALSE]
                                 = [d EXCEPT !.tmp_buffer = FALSE]
                          /\ r.data.pos = d.lcl_offs_frames
                          /\ r.data.frames = d.period_frames
                          /\ d.lcl_offs_frames < d.bufsize_frames =>
                                 r.data.data =
                                     ring_read(d.local_buffer, d.lcl_offs_frames,
                                               d.bufsize_frames, d.period_frames)

\* a capture acquisition that wrapped was handed out through tmp_buffer
C10_Witness ==
    /\ stream.flow = eCapture
    /\ handed.buf = "tmp_buffer"
    /\ stream.getbuf_last = stream.period_frames
    /\ handed.frames = stream.period_frames
    /\ handed.pos + handed.frames > stream.bufsize_frames

\* C11: with a capture acquisition of p frames outstanding,
\* release_capture_buffer fails with AUDCLNT_E_INVALID_SIZE for every count
\* other than p and 0 and leaves the stream, the acquisition included, as it
\* was; p consumes the chunk and 0 abandons it.
C11_AllOrNothing ==
    (stream.flow = eCapture /\ handed.buf # "none") =>
        /\ stream.getbuf_last = handed.frames
        /\ \A done \in 0..(MaxFrames + 1) :
           LET r == release_capture_buffer(stream, done)
           IN  IF done = 0
               THEN /\ r.result = S_OK
                    /\ r.stream = [stream EXCEPT !.getbuf_last = 0]
               ELSE IF done = handed.frames
               THEN /\ r.result = S_OK
                    /\ r.stream.getbuf_last = 0
                    /\ r.stream.held_frames = stream.held_frames - done
               ELSE /\ r.result = AUDCLNT_E_INVALID_SIZE
                    /\ r.stream = stream

\* a capture chunk of two frames is outstanding, so that a release of one
\* frame would be a partial one
C11_Witness ==
    /\ stream.flow = eCapture
    /\ handed.buf # "none"
    /\ handed.frames = 2
    /\ stream.getbuf_last = 2

\* C12: release_capture_buffer of the p frames handed out succeeds, advances
\* lcl_offs_frames by p modulo bufsize_frames, lowers held_frames by p, which
\* held_frames is never short of, raises written_frames by p, clears
\* getbuf_last and touches nothing else.
C12_ReleaseCaptureEffect ==
    (stream.flow = eCapture /\ handed.buf # "none") =>
        LET p == handed.frames
            r == release_capture_buffer(stream, p)
        IN  /\ p > 0
            /\ r.result = S_OK
            /\ stream.held_frames >= p
            /\ r.stream =
                   [stream EXCEPT !.lcl_offs_frames =
                                      (stream.lcl_offs_frames + p)
                                          % stream.bufsize_frames,
                                  !.held_frames = stream.held_frames - p,
                                  !.written_frames = stream.written_frames + p,
                                  !.getbuf_last = 0]
            /\ r.stream.lcl_offs_frames < stream.bufsize_frames
            /\ r.stream.held_frames >= 0

\* releases have taken the read offset of a capture stream round the ring
C12_Witness ==
    /\ stream.flow = eCapture
    /\ nothing_outstanding
    /\ handed = NoData
    /\ stream.written_frames > stream.bufsize_frames
    /\ stream.lcl_offs_frames = stream.written_frames % stream.bufsize_frames

\* the streams a drain can leave behind when its first conversion, if it
\* runs one, succeeds and yields a full period
full_period_drains ==
    IF resample_wanted(stream)
    THEN UNION { resample_loop(resample_insert(feed_cb(stream, req),
                                               stream.period_frames),
                               stream.cap_held_frames) :
                     req \in 1..stream.cap_held_frames }
    ELSE {stream}

\* a capture stream with an empty client ring and nothing outstanding
capture_ring_empty ==
    /\ stream.flow = eCapture
    /\ nothing_outstanding
    /\ stream.held_frames = 0

\* C13 as claimed: on a capture stream with an empty client ring and nothing
\* outstanding, once cap_buffer holds at least 2 x resamp_period_frames raw
\* frames, get_capture_buffer returns exactly period_frames frames and not
\* AUDCLNT_S_BUFFER_EMPTY, the converter yielding a full period.
C13_AsClaimed ==
    (capture_ring_empty
        /\ stream.cap_held_frames >= 2 * resamp_period_frames(stream)) =>
        \A d \in full_period_drains :
            LET r == get_capture_buffer_drained(d)
            IN  r.result = S_OK /\ r.frames = stream.period_frames

\* C13: on a capture stream with an empty client ring and nothing
\* outstanding, once cap_buffer holds more than 2 x resamp_period_frames raw
\* frames, get_capture_buffer returns exactly period_frames frames and not
\* AUDCLNT_S_BUFFER_EMPTY, the converter yielding a full period; with
\* 2 x resamp_period_frames raw frames or fewer it converts nothing and
\* returns AUDCLNT_S_BUFFER_EMPTY with 0 frames.
C13_AboveThreshold ==
    capture_ring_empty =>
        IF stream.cap_held_frames > 2 * resamp_period_frames(stream)
        THEN /\ full_period_drains # {}
             /\ \A d \in full_period_drains :
                LET r == get_capture_buffer_drained(d)
                IN  /\ r \in get_capture_buffer(stream)
                    /\ r.result = S_OK
                    /\ r.frames = stream.period_frames
                    /\ r.stream.getbuf_last = stream.period_frames
                    /\ r.data.frames = stream.period_frames
        ELSE \A r \in get_capture_buffer(stream) :
                 /\ r.result = AUDCLNT_S_BUFFER_EMPTY
                 /\ r.frames = 0
                 /\ r.stream = stream

\* a playing capture stream, client ring empty, with one raw frame more than
\* the threshold waiting
C13_Witness ==
    /\ capture_ring_empty
    /\ stream.playing
    /\ stream.cap_held_frames = 2 * resamp_period_frames(stream) + 1

\* a capture acquisition that handed out the one period held, no raw frames
\* left above the threshold
one_period_handed ==
    /\ stream.flow = eCapture
    /\ handed.buf # "none"
    /\ stream.held_frames = stream.period_frames
    /\ stream.cap_held_frames <= 2 * resamp_period_frames(stream)

\* C14 as claimed: after a get_capture_buffer that returned one period from
\* raw input just above the threshold, get_capture_buffer called again at
\* once returns AUDCLNT_S_BUFFER_EMPTY.
C14_AsClaimed ==
    one_period_handed =>
        \A r \in get_capture_buffer(stream) : r.result = AUDCLNT_S_BUFFER_EMPTY

\* C14: after a get_capture_buffer that returned one period from raw input
\* just above the threshold, get_capture_buffer called again at once fails
\* with AUDCLNT_E_OUT_OF_ORDER and changes nothing, the chunk being
\* outstanding; once the chunk was released with release_capture_buffer and
\* no raw input arrived, get_capture_buffer returns AUDCLNT_S_BUFFER_EMPTY.
C14_AcquireAgain ==
    one_period_handed =>
        /\ \A r \in get_capture_buffer(stream) :
               r.result = AUDCLNT_E_OUT_OF_ORDER /\ r.stream = stream
        /\ LET rel == release_capture_buffer(stream, handed.frames)
           IN  /\ rel.result = S_OK
               /\ \A r \in get_capture_buffer(rel.stream) :
                      /\ r.result = AUDCLNT_S_BUFFER_EMPTY
                      /\ r.frames = 0
                      /\ r.stream = rel.stream

\* the chunk was handed out of a ring that was empty before, raw frames at
\* the threshold are left
C14_Witness ==
    /\ one_period_handed
    /\ stream.playing
    /\ stream.written_frames = 0
    /\ stream.lcl_offs_frames = 0
    /\ stream.wri_offs_frames = stream.period_frames
    /\ stream.cap_held_frames = 2 * resamp_period_frames(stream)

\* C15: for every callback size N, ca_render_cb on a playing stream delivers
\* min(N, held_frames) frames of the ring in ring order from lcl_offs_frames,
\* advances lcl_offs_frames by that count modulo bufsize_frames, lowers
\* held_frames by it and fills the rest of the N frames with silence; on a
\* stopped stream it delivers N frames of silence and changes nothing; it
\* never touches wri_offs_frames, written_frames, getbuf_last or the ring
\* content.
C15_RenderAdapter ==
    stream.flow = eRender =>
        \A N \in 0..MaxN :
            LET k == IF stream.playing
                     THEN (IF N < stream.held_frames THEN N ELSE stream.held_frames)
                     ELSE 0
                out == render_cb_data(stream, N)
            IN  /\ Len(out) = N
                /\ SubSeq(out, 1, k) =
                       ring_read(stream.local_buffer, stream.lcl_offs_frames,
                                 stream.bufsize_frames, k)
                /\ \A j \in (k + 1)..N : out[j] = silence_value(stream.fmt)
                /\ ca_render_cb(stream, N) =
                       [stream EXCEPT !.lcl_offs_frames =
                                          (stream.lcl_offs_frames + k)
                                              % stream.bufsize_frames,
                                      !.held_frames = stream.held_frames - k]
                /\ ~stream.playing => ca_render_cb(stream, N) = stream

\* a callback on a playing stream found fewer frames than it asked for: it
\* delivered what was held and silence after it
C15_Witness ==
    /\ stream.flow = eRender
    /\ stream.playing
    /\ Len(hw_expect) >= 1
    /\ Len(hw_out) > Len(hw_expect)
    /\ stream.held_frames = 0

\* C16: a stream is created stopped; start succeeds only on a stopped stream
\* and sets playing, and fails with AUDCLNT_E_NOT_STOPPED on a playing one,
\* which stays playing; stop never fails: it clears playing on a playing
\* stream, and on a stopped one returns S_FALSE and changes nothing, so a
\* second stop leaves what the first left.
C16_Lifecycle ==
    /\ \A p \in StreamParams : ~create_stream(p).playing
    /\ LET r == start(stream)
       IN  IF stream.playing
           THEN r.result = AUDCLNT_E_NOT_STOPPED /\ r.stream = stream
           ELSE r.result = S_OK /\ r.stream = [stream EXCEPT !.playing = TRUE]
    /\ LET r == stop(stream)
       IN  /\ IF stream.playing
              THEN r.result = S_OK /\ r.stream = [stream EXCEPT !.playing = FALSE]
              ELSE r.result = S_FALSE /\ r.stream = stream
           /\ stop(r.stream).result = S_FALSE
           /\ stop(r.stream).stream = r.stream

\* a stream that was started and stopped again with frames still held
C16_Witness ==
    /\ ~stream.playing
    /\ stream.held_frames > 0
    /\ stream.lcl_offs_frames > 0
    /\ stream.written_frames > 0

\* C17: reset fails with AUDCLNT_E_NOT_STOPPED whenever the stream plays, an
\* acquisition outstanding or not, fails with
\* AUDCLNT_E_BUFFER_OPERATION_PENDING on a stopped stream with an acquisition
\* outstanding, and succeeds only on a stopped stream with nothing
\* outstanding; a failed reset changes nothing.
C17_ResetGuards ==
    LET r == reset(stream)
    IN  /\ stream.playing =>
               r.result = AUDCLNT_E_NOT_STOPPED /\ r.stream = stream
        /\ (~stream.playing /\ outstanding) =>
               r.result = AUDCLNT_E_BUFFER_OPERATION_PENDING /\ r.stream = stream
        /\ r.result = S_OK <=> (~stream.playing /\ nothing_outstanding)

\* a playing stream with an acquisition outstanding
C17_Witness ==
    /\ stream.playing
    /\ outstanding
    /\ handed.buf # "none"
    /\ stream.held_frames > 0

\* the streams a hardware callback can leave behind
after_callback(s) ==
    IF s.flow = eRender
    THEN { ca_render_cb(s, N) : N \in 0..MaxN }
    ELSE { ca_capture_cb(s, N, sc) : N \in 0..MaxN, sc \in {noErr, "kAudioUnitErr"} }

\* C18: after a successful reset lcl_offs_frames, wri_offs_frames,
\* held_frames, cap_offs_frames and cap_held_frames are 0 and
\* get_current_padding returns 0, on a capture stream too, where it runs the
\* drain, and also after hardware callbacks on the stream still stopped;
\* written_frames is 0 on a render stream and the old written_frames plus
\* the old held_frames on a capture stream.
C18_ResetEffect ==
    (~stream.playing /\ nothing_outstanding) =>
        LET r == reset(stream)
        IN  /\ r.result = S_OK
            /\ r.stream =
                   [stream EXCEPT !.lcl_offs_frames = 0,
                                  !.wri_offs_frames = 0,
                                  !.held_frames = 0,
                                  !.cap_offs_frames = 0,
                                  !.cap_held_frames = 0,
                                  !.written_frames =
                                      IF stream.flow = eRender THEN 0
                                      ELSE stream.written_frames + stream.held_frames]
            /\ \A s1 \in get_current_padding_nolock(r.stream) :
                   s1.held_frames = 0 /\ s1 = r.stream
            /\ \A c \in after_callback(r.stream) :
                   /\ c = r.stream
                   /\ \A s1 \in get_current_padding_nolock(c) : s1.held_frames = 0

\* a capture stream as a reset leaves it, after raw frames had been
\* captured and chunks released
C18_Witness ==
    /\ stream.flow = eCapture
    /\ ~stream.playing
    /\ nothing_outstanding
    /\ stream.held_frames = 0
    /\ stream.lcl_offs_frames = 0
    /\ stream.wri_offs_frames = 0
    /\ stream.cap_offs_frames = 0
    /\ stream.cap_held_frames = 0
    /\ stream.written_frames % stream.bufsize_frames # 0
    /\ \E i \in DOMAIN stream.cap_buffer : stream.cap_buffer[i] # 0

\* the part of the stream the ring protocol lives on
shared_state(s) ==
    [lcl_offs_frames |-> s.lcl_offs_frames,
     wri_offs_frames |-> s.wri_offs_frames,
     held_frames |-> s.held_frames,
     cap_offs_frames |-> s.cap_offs_frames,
     cap_held_frames |-> s.cap_held_frames,
     getbuf_last |-> s.getbuf_last,
     playing |-> s.playing,
     written_frames |-> s.written_frames,
     local_buffer |-> s.local_buffer,
     cap_buffer |-> s.cap_buffer]

Errors ==
    {AUDCLNT_E_OUT_OF_ORDER, AUDCLNT_E_INVALID_SIZE, AUDCLNT_E_BUFFER_TOO_LARGE,
     AUDCLNT_E_NOT_STOPPED, AUDCLNT_E_BUFFER_OPERATION_PENDING, E_OUTOFMEMORY}

\* the outcomes of every client call that returns a result, on the stream as
\* it is
client_calls ==
    {start(stream), stop(stream), reset(stream)}
    \cup (IF stream.flow = eRender
          THEN { [stream |-> r.stream, result |-> r.result] :
                     r \in UNION { get_render_buffer(stream, frames, alloc_ok) :
                                       frames \in 0..(MaxFrames + 1),
                                       alloc_ok \in BOOLEAN } }
               \cup { release_render_buffer(stream, frames, flags, client_tmp) :
                          frames \in 0..(MaxFrames + 1), flags \in Flags }
          ELSE { [stream |-> r.stream, result |-> r.result] :
                     r \in get_capture_buffer(stream) }
               \cup { release_capture_buffer(stream, done) :
                          done \in 0..(MaxFrames + 1) })

C20_RingInvariant ==
    /\ 0 <= stream.held_frames
    /\ stream.held_frames <= stream.bufsize_frames
    /\ stream.wri_offs_frames =
           (stream.lcl_offs_frames + stream.held_frames) % stream.bufsize_frames

\* a capture stream whose client ring a drain overran: the ring is full and
\* the read offset moved though nothing was released
C20_Witness ==
    /\ stream.flow = eCapture
    /\ stream.held_frames = stream.bufsize_frames
    /\ stream.written_frames = 0
    /\ stream.lcl_offs_frames > 0

\* the sizes a hardware callback is tried with: up to more than twice the
\* raw ring
CallbackSizes(s) == 0..(2 * s.cap_bufsize_frames + 1)

\* the sizes a converter pull is tried with: up to more than the raw ring
PullSizes(s) == 0..(s.cap_bufsize_frames + 2)

raw_ring_in_bounds(s) ==
    /\ 0 <= s.cap_held_frames
    /\ s.cap_held_frames <= s.cap_bufsize_frames
    /\ 0 <= s.cap_offs_frames
    /\ s.cap_offs_frames < s.cap_bufsize_frames

\* C21: in every reachable state of a capture stream, whatever callbacks,
\* converter pulls and Resets led to it, 0 <= cap_held_frames <=
\* cap_bufsize_frames; a capture callback of any size, a Reset and a converter
\* pull of any size keep it so, and a pull takes min(requested, held) frames,
\* never more than are held.
C21_RawRingInvariant ==
    stream.flow = eCapture =>
        /\ raw_ring_in_bounds(stream)
        /\ \A nframes \in CallbackSizes(stream), sc \in {noErr, "kAudioUnitErr"} :
               raw_ring_in_bounds(ca_capture_cb(stream, nframes, sc))
        /\ \A nframes \in PullSizes(stream) :
               LET s1 == feed_cb(stream, nframes)
                   taken == stream.cap_held_frames - s1.cap_held_frames
               IN  /\ raw_ring_in_bounds(s1)
                   /\ taken = min(nframes, stream.cap_held_frames)
                   /\ taken <= stream.cap_held_frames
        /\ raw_ring_in_bounds(reset(stream).stream)
        /\ \A s1 \in capture_resample(stream) : raw_ring_in_bounds(s1)

\* a playing capture stream whose raw ring is full after an overrun moved its
\* read offset, with converted frames in the client ring already
C21_Witness ==
    /\ stream.flow = eCapture
    /\ stream.playing
    /\ stream.cap_held_frames = stream.cap_bufsize_frames
    /\ stream.cap_offs_frames > 0
    /\ stream.held_frames > 0

\* a <= b for two UINT64 values; a negative number stands for the value
\* 2^64 less its magnitude, as in get_position
uint64_leq(a, b) ==
    IF (a < 0) = (b < 0) THEN a <= b ELSE b < 0

\* C22: on a capture stream no operation (capture callback, resampler drain,
\* acquire, release, Start, Stop, Reset, query) makes the position reported
\* by get_position smaller than it was before the operation.
C22_AsClaimed ==
    [][stream.flow = eCapture =>
           uint64_leq(get_position(stream), get_position(stream'))]_vars

\* a capture stream holding converted frames the client has not released:
\* written_frames - held_frames is below zero and get_position reports the
\* wrapped UINT64
C22_Witness ==
    /\ stream.flow = eCapture
    /\ stream.held_frames > stream.written_frames
    /\ get_position(stream) < 0

\* the streams left by the operations the claim lets change nothing of
\* written_frames on either flow: hardware callbacks, acquisitions, Start,
\* Stop and the queries
written_frames_bystanders ==
    {start(stream).stream, stop(stream).stream}
    \cup (IF stream.flow = eRender
          THEN { ca_render_cb(stream, nframes) : nframes \in 0..(MaxN + 1) }
               \cup { r.stream :
                          r \in UNION { get_render_buffer(stream, frames, alloc_ok) :
                                            frames \in 0..(MaxFrames + 1),
                                            alloc_ok \in BOOLEAN } }
               \cup get_current_padding_nolock(stream)
          ELSE { ca_capture_cb(stream, nframes, sc) :
                     nframes \in CallbackSizes(stream),
                     sc \in {noErr, "kAudioUnitErr"} })

\* release_render_buffer adds frames when it succeeds, nothing otherwise
render_release_counts ==
    stream.flow = eRender =>
        \A frames \in 0..(MaxFrames + 1), flags \in Flags :
            LET r == release_render_buffer(stream, frames, flags, client_tmp)
            IN  r.stream.written_frames =
                    stream.written_frames + (IF r.result = S_OK THEN frames ELSE 0)

\* Reset zeroes the count of a render stream and nothing else lowers it
reset_counts ==
    LET r == reset(stream)
    IN  /\ r.result # S_OK => r.stream.written_frames = stream.written_frames
        /\ (r.result = S_OK /\ stream.flow = eCapture) =>
               r.stream.written_frames = stream.written_frames + stream.held_frames
        /\ (r.result = S_OK /\ stream.flow = eRender) => r.stream.written_frames = 0

\* the streams a drain can leave, alone or at the head of an acquisition or
\* of a query
drained ==
    capture_resample(stream)
    \cup { r.stream : r \in get_capture_buffer(stream) }
    \cup { r.stream : r \in get_next_packet_size(stream) }

\* C23 as claimed: on a capture stream written_frames grows by the frames a
\* drain inserts into the client ring (held_frames grows by as many while the
\* ring does not overrun, which shows in lcl_offs_frames staying put) and
\* ReleaseCapture leaves it alone; on a render stream it grows by n on a
\* successful ReleaseRender(n); no callback, acquisition, failed or abandoning
\* release, Start, Stop or query changes it.
C23_AsClaimed ==
    /\ \A s1 \in written_frames_bystanders : s1.written_frames = stream.written_frames
    /\ render_release_counts
    /\ reset_counts
    /\ stream.flow = eCapture =>
           /\ \A s1 \in capture_resample(stream) :
                  s1.lcl_offs_frames = stream.lcl_offs_frames =>
                      s1.written_frames =
                          stream.written_frames + (s1.held_frames - stream.held_frames)
           /\ \A done \in 0..(MaxFrames + 1) :
                  release_capture_buffer(stream, done).stream.written_frames =
                      stream.written_frames

\* C23: written_frames changes only as follows: on a render stream it grows
\* by n when ReleaseRender(n) succeeds; on a capture stream it grows by n
\* when ReleaseCapture(n) succeeds, and a drain, whatever it inserts into the
\* client ring, leaves it alone; Reset sets it to 0 on a render stream and
\* adds held_frames on a capture stream; no callback, acquisition, failed or
\* abandoning release, Start, Stop or query changes it, so only a render
\* Reset lowers it.
C23_WrittenFrames ==
    /\ \A s1 \in written_frames_bystanders : s1.written_frames = stream.written_frames
    /\ render_release_counts
    /\ reset_counts
    /\ stream.flow = eCapture =>
           /\ \A s1 \in drained : s1.written_frames = stream.written_frames
           /\ \A done \in 0..(MaxFrames + 1) :
                  LET r == release_capture_buffer(stream, done)
                  IN  r.stream.written_frames =
                          stream.written_frames + (IF r.result = S_OK THEN done ELSE 0)

\* a capture stream that has released frames before, holds converted frames
\* handed out for release, and has raw frames enough for a drain to insert
\* more
C23_Witness ==
    /\ stream.flow = eCapture
    /\ stream.written_frames > 0
    /\ stream.getbuf_last > 0
    /\ resample_wanted(stream)
    /\ \E s1 \in capture_resample(stream) : s1.held_frames > stream.held_frames

\* the fields the lock is there for: the rings with their capacities, the
\* offsets, the held counts, the outstanding marker and written_frames
LockedFields ==
    {"local_buffer", "cap_buffer", "bufsize_frames", "cap_bufsize_frames",
     "lcl_offs_frames", "wri_offs_frames", "cap_offs_frames",
     "held_frames", "cap_held_frames", "getbuf_last", "written_frames"}

\* thread t is between an OSSpinLockLock and the OSSpinLockUnlock after it
in_section(t) ==
    \E i \in 1..(pc[t].at - 1) :
        /\ i <= Len(pc[t].path)
        /\ pc[t].path[i].k = "lock"
        /\ \A j \in (i + 1)..(pc[t].at - 1) :
               j <= Len(pc[t].path) => pc[t].path[j].k # "unlock"

\* thread t is at a statement that touches one of the LockedFields
touches_locked(t) ==
    /\ running(t)
    /\ statement(t).k \in {"access", "setup", "drain"}
    /\ statement(t).f \cap LockedFields # {}

\* the lock discipline for the threads inside the functions ops
lock_discipline(ops) ==
    /\ \A t \in Threads :
           (pc[t].op \in ops /\ touches_locked(t)) => in_section(t)
    /\ Cardinality({t \in Threads : in_section(t)}) <= 1
    /\ \A t \in Threads : in_section(t) => lock = 1
    /\ \A t \in Threads : (pc[t].op # "idle" /\ at_end(t)) => ~in_section(t)
    /\ (\A t \in Threads : pc[t] = Idle) => lock = 0

AllOps ==
    {c.op : c \in ClientCalls(eRender) \cup ClientCalls(eCapture)
                  \cup HardwareCalls(eRender) \cup HardwareCalls(eCapture)}
    \cup {"create_stream"}

\* C24: a hardware callback or a client operation touches the rings, the
\* offsets, the held counts, the outstanding marker and written_frames only
\* between taking and releasing the stream's lock; at most one thread is
\* between the two at a time; and an operation has released the lock when it
\* returns, whichever exit it takes, so that the lock is free once every
\* holder has returned.
C24_AsClaimed == lock_discipline(AllOps)

\* the capture callback holds the lock and is about to compute
\* (cap_offs_frames + cap_held_frames) % cap_bufsize_frames while
\* create_stream, started but not finished, has left cap_bufsize_frames 0
C24_Witness ==
    /\ pc["client"].op = "create_stream"
    /\ pc["hw"].op = "ca_capture_cb"
    /\ in_section("hw")
    /\ running("hw")
    /\ statement("hw").l = 391
    /\ stream.cap_bufsize_frames = 0

\* period_frames x hardware rate / client rate, rounded to the nearest frame
resampPeriod(s) ==
    (2 * s.period_frames * s.dev_rate + s.fmt.nSamplesPerSec)
        \div (2 * s.fmt.nSamplesPerSec)

\* the frames a step put into the client ring, read off the write offset
inserted(s, s1) ==
    (s1.wri_offs_frames + s.bufsize_frames - s.wri_offs_frames) % s.bufsize_frames

\* the passes through the loop of capture_resample open to the stream as it is
drain_steps == resample_step(stream, converter_runs(stream, stream.period_frames))

\* C25: the drain converts only while the raw ring holds strictly more than
\* 2 x resampPeriod frames, resampPeriod being period_frames x hardware rate
\* / client rate rounded; each pass asks the converter for exactly
\* period_frames frames and puts at most period_frames frames into the client
\* ring; with 2 x resampPeriod raw frames or fewer the drain changes nothing.
C25_DrainThreshold ==
    stream.flow = eCapture =>
        /\ resamp_period_frames(stream) = resampPeriod(stream)
        /\ stream.cap_held_frames <= 2 * resampPeriod(stream) =>
               capture_resample(stream) = {stream}
        /\ stream.cap_held_frames > 2 * resampPeriod(stream) =>
               /\ capture_resample(stream) # {stream}
               /\ \A r \in drain_steps :
                      /\ r.wanted = stream.period_frames
                      /\ r.out <= stream.period_frames
                      /\ inserted(stream, r.stream) <= stream.period_frames
                      /\ r.stream.held_frames <= stream.held_frames + stream.period_frames
        /\ \A s1 \in capture_resample(stream) :
               \/ s1 = stream
               \/ stream.cap_held_frames > 2 * resampPeriod(stream)

\* a capture stream with converted frames in the client ring and exactly
\* 2 x resampPeriod raw frames, which the drain leaves alone
C25_Witness ==
    /\ stream.flow = eCapture
    /\ stream.held_frames > 0
    /\ stream.cap_held_frames = 2 * resampPeriod(stream)
    /\ stream.cap_held_frames > 0
    /\ capture_resample(stream) = {stream}

\* C26: a drain, once entered, always comes to its end, whatever the
\* converter does within its interface (any number of raw frames pulled per
\* pass, none included; fewer frames returned than asked for) and whatever
\* the configuration, period_frames = 0 included.
C26_AsClaimed == draining ~> ~draining

\* a drain on a stream with period_frames = 0 holding raw frames, one pass
\* done: the loop condition holds and the next pass, with the converter
\* asked for no frame and pulling none, leaves the stream as it was
C26_Witness ==
    /\ draining
    /\ pc["client"].at = 1
    /\ stream.period_frames = 0
    /\ stream.cap_held_frames > 0
    /\ resample_wanted(stream)
    /\ \E r \in resample_step(stream, converter_runs(stream, stream.period_frames)) :
           r.sc = noErr /\ r.stream = stream

\* the client ring: content, offsets and held count
client_ring(s) ==
    [local_buffer |-> s.local_buffer,
     wri_offs_frames |-> s.wri_offs_frames,
     lcl_offs_frames |-> s.lcl_offs_frames,
     held_frames |-> s.held_frames]

\* the passes open after the pass that left s
next_steps(s) == resample_step(s, converter_runs(s, s.period_frames))

\* the pass that left r fails: the client ring stays as the passes before
\* left it in s, and the drain of the stream ends with what the failed pass
\* left
failure_ends_drain(s, r) ==
    r.sc # noErr =>
        /\ client_ring(r.stream) = client_ring(s)
        /\ r.stream \in capture_resample(stream)

\* C27: when a pass of the drain fails, first or later, the drain stops at
\* once; the client ring keeps what the earlier passes inserted, write
\* offset and held_frames included, and the failed pass inserts nothing.
C27_FailureKeepsOutput ==
    (stream.flow = eCapture /\ resample_wanted(stream)) =>
        \A r1 \in drain_steps :
            /\ failure_ends_drain(stream, r1)
            /\ (r1.sc = noErr /\ resample_wanted(r1.stream)) =>
                   /\ r1.out > 0 => client_ring(r1.stream) # client_ring(stream)
                   /\ \A r2 \in next_steps(r1.stream) :
                          failure_ends_drain(r1.stream, r2)

\* a capture stream holding converted frames and raw frames enough for two
\* passes, the first of which can insert a period and the second fail
C27_Witness ==
    /\ stream.flow = eCapture
    /\ stream.held_frames > 0
    /\ resample_wanted(stream)
    /\ \E r1 \in drain_steps :
           /\ r1.sc = noErr
           /\ r1.out = stream.period_frames
           /\ resample_wanted(r1.stream)
           /\ \E r2 \in next_steps(r1.stream) : r2.sc # noErr

\* the held frames of the client ring of s, oldest first
held_in_order(s) ==
    ring_read(s.local_buffer, s.lcl_offs_frames, s.bufsize_frames, s.held_frames)

\* what a pass that inserted w frames into s has to leave in the ring: the
\* frames held before and the w new ones, less the oldest beyond bufsize_frames
kept_in_order(s, w) ==
    LET all == held_in_order(s) \o converter_frames(s, w)
        over == IF Len(all) > s.bufsize_frames THEN Len(all) - s.bufsize_frames ELSE 0
    IN  SubSeq(all, over + 1, Len(all))

\* the read offset after the pass is the one before moved on by over frames
\* around the ring
read_offset_moved(s, s1, over) ==
    s1.lcl_offs_frames = (s.lcl_offs_frames + over) % s.bufsize_frames

\* the frames the next get_capture_buffer hands out are the oldest kept
acquire_reads_kept(s, s1, w) ==
    LET a == get_capture_buffer_drained(s1)
    IN  a.result = S_OK =>
            a.data.data = SubSeq(kept_in_order(s, w), 1, s1.period_frames)

\* C28: a pass of the drain that inserts w frames with held_frames + w >
\* bufsize_frames leaves held_frames = bufsize_frames and the read offset
\* moved on by held_frames + w - bufsize_frames modulo bufsize_frames, the
\* newest bufsize_frames frames readable in order from it; with held_frames +
\* w <= bufsize_frames the read offset stays and held_frames grows by w.
C28_AsClaimed ==
    (stream.flow = eCapture /\ resample_wanted(stream)) =>
        \A r \in drain_steps :
            r.sc = noErr =>
                IF stream.held_frames + r.out > stream.bufsize_frames
                THEN /\ r.stream.held_frames = stream.bufsize_frames
                     /\ read_offset_moved(stream, r.stream,
                            stream.held_frames + r.out - stream.bufsize_frames)
                     /\ held_in_order(r.stream) = kept_in_order(stream, r.out)
                     /\ acquire_reads_kept(stream, r.stream, r.out)
                ELSE /\ r.stream.held_frames = stream.held_frames + r.out
                     /\ r.stream.lcl_offs_frames = stream.lcl_offs_frames
                     /\ held_in_order(r.stream) = kept_in_order(stream, r.out)

\* an overrun has left the read offset of a capture stream beyond the ring,
\* and the next get_capture_buffer hands out what lies there
C28_Witness ==
    /\ stream.flow = eCapture
    /\ stream.held_frames = stream.bufsize_frames
    /\ stream.lcl_offs_frames >= stream.bufsize_frames
    /\ get_capture_buffer_drained(stream).result = S_OK
    /\ get_capture_buffer_drained(stream).data.data # 
           SubSeq(held_in_order(stream), 1, stream.period_frames)

\* C29: a playing capture stream receives nframes frames from the audio
\* unit.  If cap_held_frames + nframes exceeds cap_bufsize_frames, then
\* cap_held_frames becomes cap_bufsize_frames and cap_offs_frames moves on by
\* the frames that did not fit, modulo cap_bufsize_frames, whatever nframes
\* is (also above cap_bufsize_frames); if not, cap_held_frames grows by
\* nframes and cap_offs_frames stays.
C29_RawRingOverrun ==
    (stream.flow = eCapture /\ stream.playing) =>
        \A nframes \in CallbackSizes(stream) :
            LET s1 == ca_capture_cb(stream, nframes, noErr)
                total == stream.cap_held_frames + nframes
                over == total - stream.cap_bufsize_frames
            IN  IF total > stream.cap_bufsize_frames
                THEN /\ s1.cap_held_frames = stream.cap_bufsize_frames
                     /\ s1.cap_offs_frames =
                            (stream.cap_offs_frames + over) % stream.cap_bufsize_frames
                ELSE /\ s1.cap_held_frames = total
                     /\ s1.cap_offs_frames = stream.cap_offs_frames

\* a playing capture stream right after callbacks overran the raw ring:
\* the ring is full, its read offset has moved, and nothing was drained yet
C29_Witness ==
    /\ stream.flow = eCapture
    /\ stream.playing
    /\ stream.cap_held_frames = stream.cap_bufsize_frames
    /\ stream.cap_offs_frames > 0
    /\ stream.held_frames = 0
    /\ stream.written_frames = 0

client_ring_state(s) ==
    <<s.local_buffer, s.lcl_offs_frames, s.wri_offs_frames, s.held_frames,
      s.written_frames, s.getbuf_last, s.tmp_buffer, s.tmp_buffer_frames>>

raw_ring_state(s) ==
    <<s.cap_buffer, s.cap_offs_frames, s.cap_held_frames>>

\* C30: on a capture stream that is not playing, a callback of any size,
\* whether AudioUnitRender succeeds or fails, leaves the raw ring contents,
\* cap_offs_frames, cap_held_frames and all the client ring state as they
\* were.
C30_StoppedCallback ==
    (stream.flow = eCapture /\ ~stream.playing) =>
        \A nframes \in CallbackSizes(stream), sc \in {noErr, "kAudioUnitErr"} :
            LET s1 == ca_capture_cb(stream, nframes, sc)
            IN  /\ raw_ring_state(s1) = raw_ring_state(stream)
                /\ client_ring_state(s1) = client_ring_state(stream)
                /\ s1 = stream

\* a stopped capture stream that holds raw frames and converted frames from
\* when it was playing
C30_Witness ==
    /\ stream.flow = eCapture
    /\ ~stream.playing
    /\ stream.cap_held_frames > 0
    /\ stream.cap_held_frames < stream.cap_bufsize_frames
    /\ stream.held_frames > 0

\* frames numbered in the order of their delivery
numbered(n) == as_buffer([j \in 1..n |-> j])

\* ring is old with the n frames of data stored in order from slot wri on,
\* wrapping at size
holds_in_order(ring, old, wri, size, data, n) ==
    \A i \in 0..(size - 1) :
        LET j == (i + size - wri) % size
        IN  ring[i] = IF j < n THEN data[j] ELSE old[i]

\* C31: on a playing capture stream a callback of nframes frames that the
\* raw ring can hold leaves the ring with these frames in order from slot
\* (cap_offs_frames + cap_held_frames) mod cap_bufsize_frames on, whether it
\* went through wrap_buffer and ca_wrap_buffer (the span passes the ring
\* end) or straight into the ring (the span ends at or before the ring end);
\* where the span fits, the copy through wrap_buffer gives the ring the
\* direct delivery gives; cap_offs_frames and cap_held_frames after the
\* callback do not depend on the path.
C31_PathsEquivalent ==
    (stream.flow = eCapture /\ stream.playing) =>
        \A nframes \in 0..stream.cap_bufsize_frames :
            LET size == stream.cap_bufsize_frames
                wri == cap_wri_offs_frames(stream)
                old == stream.cap_buffer
                scratch == ca_wrap_buffer(old, wri, size, numbered(nframes), nframes)
                direct == memcpy(old, wri, numbered(nframes), 0, nframes)
                s1 == ca_capture_cb(stream, nframes, noErr)
                total == stream.cap_held_frames + nframes
            IN  /\ capture_uses_wrap_buffer(stream, nframes) <=> (wri + nframes > size)
                /\ holds_in_order(scratch, old, wri, size, numbered(nframes), nframes)
                /\ wri + nframes <= size =>
                       /\ direct = scratch
                       /\ holds_in_order(direct, old, wri, size, numbered(nframes), nframes)
                /\ holds_in_order(s1.cap_buffer, old, wri, size,
                                  as_buffer(unit_frames(stream, nframes)), nframes)
                /\ s1.cap_held_frames = min(total, size)
                /\ s1.cap_offs_frames =
                       IF total > size
                       THEN (stream.cap_offs_frames + (total - size)) % size
                       ELSE stream.cap_offs_frames

\* a playing capture stream whose held raw frames pass the ring end, with
\* room left: the next callback goes straight into the ring or through
\* wrap_buffer depending on its size
C31_Witness ==
    /\ stream.flow = eCapture
    /\ stream.playing
    /\ stream.cap_held_frames < stream.cap_bufsize_frames
    /\ stream.cap_offs_frames + stream.cap_held_frames > stream.cap_bufsize_frames
    /\ cap_wri_offs_frames(stream) + 2 < stream.cap_bufsize_frames

\* the client of an acquisition r of n frames fills what it was handed and
\* releases the n frames with flags
released_after(r, n, flags) ==
    LET h == [r.data EXCEPT !.data = client_frames(r.stream, n)]
    IN  release_render_buffer(client_fill(r.stream, h), n, flags, as_buffer(h.data))

\* C32: a successful get_render_buffer of n > 0 frames sets getbuf_last to
\* -n and hands out tmp_buffer exactly when wri_offs_frames + n >
\* bufsize_frames, and sets it to +n and hands out local_buffer at
\* wri_offs_frames otherwise, a span ending exactly at the ring end
\* included; the magnitude recorded is n; after the client filled the
\* buffer and released the n frames, the ring holds the committed frames in
\* order from the old wri_offs_frames on, wrapping, and its other slots are
\* untouched, whichever way the acquisition went; where the span fits,
\* copying through tmp_buffer gives the ring the direct write gives.
C32_DirectAndIndirect ==
    (stream.flow = eRender /\ stream.getbuf_last = 0) =>
        \A n \in 1..MaxFrames, alloc_ok \in BOOLEAN,
           flags \in {NoFlags, AUDCLNT_BUFFERFLAGS_SILENT} :
        \A r \in get_render_buffer(stream, n, alloc_ok) :
            r.result = S_OK =>
                LET wri == stream.wri_offs_frames
                    size == stream.bufsize_frames
                    wraps == wri + n > size
                    h == [r.data EXCEPT !.data = client_frames(r.stream, n)]
                    rel == released_after(r, n, flags)
                    sent == as_buffer(committed_frames(r.stream, h, n, flags))
                IN  /\ wraps <=> (r.stream.getbuf_last = 0 - n /\ r.data.buf = "tmp_buffer")
                    /\ ~wraps <=> /\ r.stream.getbuf_last = n
                                  /\ r.data.buf = "local_buffer"
                                  /\ r.data.offs = wri
                    /\ getbuf_magnitude(r.stream) = n
                    /\ rel.result = S_OK
                    /\ holds_in_order(rel.stream.local_buffer, stream.local_buffer,
                                      wri, size, sent, n)
                    /\ rel.stream.wri_offs_frames = (wri + n) % size
                    /\ ~wraps =>
                           ca_wrap_buffer(stream.local_buffer, wri, size, sent, n)
                               = rel.stream.local_buffer

\* a render stream between acquisitions whose committed frames pass the end
\* of the ring, after an acquisition went through tmp_buffer
C32_Witness ==
    /\ stream.flow = eRender
    /\ stream.getbuf_last = 0
    /\ stream.tmp_buffer
    /\ stream.held_frames > 0
    /\ stream.lcl_offs_frames + stream.held_frames > stream.bufsize_frames
    /\ stream.wri_offs_frames > 0

\* the functions capture_resample is called from, directly or through
\* get_current_padding_nolock
DrainingOps ==
    {"get_current_padding", "get_next_packet_size", "get_capture_buffer",
     "get_render_buffer"}

\* what the callbacks work on: the rings, their offsets and counts, playing
callback_fields ==
    {"playing", "local_buffer", "lcl_offs_frames", "held_frames",
     "cap_buffer", "cap_offs_frames", "cap_held_frames", "cap_bufsize_frames"}

at_drain(t) == running(t) /\ statement(t).k = "drain"

\* C33: capture_resample never runs on the audio unit's thread: a thread
\* that is at a call of it is the client thread, inside get_current_padding,
\* get_next_packet_size, get_capture_buffer or get_render_buffer, holding the
\* lock, and get_current_padding_nolock calls it on capture streams only;
\* every statement of ca_render_cb and ca_capture_cb is a lock, an unlock or
\* an access to the rings, their offsets and counts and playing.
C33_DrainOnClientThread ==
    /\ \A t \in Threads :
           at_drain(t) =>
               /\ t = "client"
               /\ pc[t].op \in DrainingOps
               /\ in_section(t)
               /\ pc[t].op \in {"get_current_padding", "get_render_buffer"}
                      => stream.flow = eCapture
    /\ stream.flow = eRender =>
           \A c \in ClientCalls(eRender) :
               c.op \in {"get_current_padding", "get_render_buffer"} =>
                   \A i \in 1..Len(c.path) : c.path[i].k # "drain"
    /\ \A c \in HardwareCalls(stream.flow) :
           \A i \in 1..Len(c.path) :
               /\ c.path[i].k \in {"lock", "unlock", "access"}
               /\ c.path[i].f \subseteq callback_fields
    /\ pc["hw"].op # "idle" =>
           \A i \in 1..Len(pc["hw"].path) : pc["hw"].path[i].k # "drain"

\* the client is about to drain inside get_next_packet_size, holding the
\* lock, while the capture callback waits at its OSSpinLockLock
C33_Witness ==
    /\ at_drain("client")
    /\ pc["client"].op = "get_next_packet_size"
    /\ running("hw")
    /\ pc["hw"].op = "ca_capture_cb"
    /\ statement("hw").k = "lock"

\* C34: in every reachable state with bufsize_frames > 0, lcl_offs_frames and
\* wri_offs_frames are below bufsize_frames, and on a capture stream
\* cap_offs_frames is below cap_bufsize_frames; so also right after a pass of
\* the drain that overran the client ring.
C34_AsClaimed ==
    stream.bufsize_frames > 0 =>
        /\ stream.lcl_offs_frames < stream.bufsize_frames
        /\ stream.wri_offs_frames < stream.bufsize_frames
        /\ stream.flow = eCapture =>
               stream.cap_offs_frames < stream.cap_bufsize_frames

\* a capture stream whose read offset is past the end of the ring while the
\* ring is full and nothing is outstanding: the next get_capture_buffer
\* reads at local_buffer + lcl_offs_frames
C34_Witness ==
    /\ stream.flow = eCapture
    /\ stream.bufsize_frames > 0
    /\ stream.lcl_offs_frames > stream.bufsize_frames
    /\ stream.held_frames = stream.bufsize_frames
    /\ stream.getbuf_last = 0

\* the slots of the client ring an acquisition outstanding on s covers
handed_span(s, ring) ==
    ring_read(ring, s.lcl_offs_frames, s.bufsize_frames, s.getbuf_last)

\* C35: on a capture stream, from a successful get_capture_buffer to its
\* release_capture_buffer no step (capture callback, get_current_padding,
\* get_next_packet_size, or any other call that leaves the acquisition
\* outstanding) moves lcl_offs_frames or changes the ring slots handed to
\* the client; so release_capture_buffer(period_frames) takes off the ring
\* the frames that were handed out and no others.
C35_AsClaimed ==
    [][(/\ stream.flow = eCapture
        /\ stream.getbuf_last # 0
        /\ stream'.getbuf_last # 0)
       => /\ stream'.lcl_offs_frames = stream.lcl_offs_frames
          /\ handed_span(stream, stream'.local_buffer)
                 = handed_span(stream, stream.local_buffer)]_vars

\* an acquisition straight from the ring is outstanding, the ring has been
\* filled over the slots handed out and the read offset is no longer where
\* the frames were handed out
C35_Witness ==
    /\ stream.flow = eCapture
    /\ stream.getbuf_last # 0
    /\ handed.buf = "local_buffer"
    /\ handed.pos < stream.bufsize_frames
    /\ stream.lcl_offs_frames # handed.pos
    /\ stream.held_frames = stream.bufsize_frames

\* the ring slots of n frames from offs on, wrapping at size
span_slots(offs, n, size) == { (offs + j) % size : j \in 0..(n - 1) }

\* C36: on a render stream, while a direct acquisition of n frames is
\* outstanding, the slots wri_offs_frames .. wri_offs_frames + n - 1 handed
\* to the client lie inside the ring and share no slot with the held_frames
\* frames from lcl_offs_frames on, whatever render callbacks ran in between;
\* what the callback delivers are committed frames only, and the frames
\* committed and not yet delivered are still in the ring as committed.
C36_DirectSpanDisjoint ==
    (stream.flow = eRender /\ stream.getbuf_last > 0) =>
        LET n == stream.getbuf_last
            size == stream.bufsize_frames
            lent == span_slots(stream.wri_offs_frames, n, size)
            held == span_slots(stream.lcl_offs_frames, stream.held_frames, size)
        IN  /\ stream.wri_offs_frames + n <= size
            /\ lent = stream.wri_offs_frames..(stream.wri_offs_frames + n - 1)
            /\ lent \cap held = {}
            /\ stream.held_frames + n <= size
            /\ handed.buf = "local_buffer"
            /\ handed.offs = stream.wri_offs_frames
            /\ ring_read(stream.local_buffer, stream.lcl_offs_frames, size,
                         stream.held_frames) = pending
            /\ SubSeq(hw_out, 1, Len(hw_expect)) = hw_expect

\* the client has written into a direct acquisition that lies before the
\* held frames in the ring, and a playing callback has just delivered some
\* of the frames committed earlier
C36_Witness ==
    /\ stream.flow = eRender
    /\ stream.playing
    /\ stream.getbuf_last > 0
    /\ stream.held_frames > 0
    /\ stream.wri_offs_frames < stream.lcl_offs_frames
    /\ Len(hw_expect) > 0
    /\ handed.data # [j \in 1..handed.frames |-> silence_value(stream.fmt)]

----------------------------------------------------------------------------
(* Callbacks larger than the raw ring *)

\* what the memory behind an allocation holds before anything is written there
Beyond == 0 - 2

\* the slots behind the raw ring that a callback of the sizes tried can reach
slots_beyond(s) == s.cap_bufsize_frames..(2 * s.cap_bufsize_frames + 1)

\* a capture stream as create_stream returns it, cap_buffer shown together
\* with the memory that follows it
stream_with_memory_beyond(p) ==
    LET s == create_stream(p)
    IN  [s EXCEPT !.cap_buffer =
            [i \in (DOMAIN s.cap_buffer) \cup slots_beyond(s) |->
                IF i \in DOMAIN s.cap_buffer THEN s.cap_buffer[i] ELSE Beyond]]

InitWrap ==
    /\ \E p \in StreamParams :
           /\ p.flow = eCapture
           /\ params = p
           /\ stream = stream_with_memory_beyond(p)
    /\ lock = 0
    /\ unit = "started"
    /\ pc = [t \in Threads |-> Idle]
    /\ handed = NoData
    /\ hw_out = <<>>
    /\ hw_expect = <<>>
    /\ pending = <<>>
    /\ released_sum = 0
    /\ copied_sum = 0

\* the audio unit calls ca_capture_cb with as many frames as it likes
LargeCallback ==
    /\ \E nframes \in CallbackSizes(stream) :
           stream' = ca_capture_cb(stream, nframes, noErr)
    /\ UNCHANGED <<lvars, hvars>>

NextWrap ==
    \/ Start
    \/ Stop
    \/ GetCurrentPadding
    \/ LargeCallback

SpecWrap == InitWrap /\ [][NextWrap]_vars

\* the arguments of a call of ca_wrap_buffer, in frames
WrapCopy(site, dst_offs, dst_frames, src_frames) ==
    [site |-> site, dst_offs |-> dst_offs, dst_frames |-> dst_frames,
     src_frames |-> src_frames]

\* lines 414-420: the call ca_capture_cb makes for a callback of nframes
capture_wrap_copies(s, nframes) ==
    IF s.flow = eCapture /\ s.playing /\ capture_uses_wrap_buffer(s, nframes)
    THEN {WrapCopy("ca_capture_cb", cap_wri_offs_frames(s), s.cap_bufsize_frames, nframes)}
    ELSE {}

\* lines 1126-1129: the call a pass of capture_resample makes
resample_wrap_copies(s) ==
    IF s.flow = eCapture /\ resample_wanted(s)
    THEN {WrapCopy("capture_resample", s.wri_offs_frames, s.bufsize_frames,
                   s.period_frames)}
    ELSE {}

\* lines 1406-1410: the call release_render_buffer makes for frames frames
release_wrap_copies(s, frames) ==
    IF /\ s.flow = eRender
       /\ frames > 0
       /\ s.getbuf_last < 0
       /\ ~release_too_many(s, frames)
    THEN {WrapCopy("release_render_buffer", s.wri_offs_frames, s.bufsize_frames, frames)}
    ELSE {}

wrap_copy_inside(c) ==
    /\ c.dst_offs < c.dst_frames
    /\ c.src_frames <= c.dst_frames

memory_beyond_untouched(s) ==
    \A i \in (DOMAIN s.cap_buffer) \cap slots_beyond(s) : s.cap_buffer[i] = Beyond

\* C37: every call of ca_wrap_buffer has its destination offset below the
\* ring size and copies no more frames than the ring has: the call of
\* ca_capture_cb for a callback of any size, the call of a pass of
\* capture_resample, the call of release_render_buffer for an indirect
\* acquisition; so nothing is ever written behind a ring.
C37_AsClaimed ==
    /\ \A nframes \in CallbackSizes(stream) :
           \A c \in capture_wrap_copies(stream, nframes) : wrap_copy_inside(c)
    /\ \A c \in resample_wrap_copies(stream) : wrap_copy_inside(c)
    /\ \A frames \in 0..MaxFrames :
           \A c \in release_wrap_copies(stream, frames) : wrap_copy_inside(c)
    /\ memory_beyond_untouched(stream)

\* a callback has written frames into the memory behind the raw ring
C37_Witness ==
    /\ stream.flow = eCapture
    /\ stream.playing
    /\ ~memory_beyond_untouched(stream)
    /\ stream.cap_held_frames = stream.cap_bufsize_frames

\* C38: in every reachable state of a render or a capture stream
\* written_frames >= held_frames, so that the written_frames - held_frames of
\* get_position is a frame count of zero or more, never a wrapped UINT64.
C38_AsClaimed ==
    /\ stream.written_frames >= stream.held_frames
    /\ get_position(stream) >= 0

\* a capture stream right after its first drain: converted frames are held,
\* none has been released yet, and get_position has nothing to subtract from
C38_Witness ==
    /\ stream.flow = eCapture
    /\ stream.written_frames = 0
    /\ stream.held_frames > 0
    /\ stream.getbuf_last = 0
    /\ stream.written_frames - stream.held_frames < 0

\* C39: with the audio unit calling ca_render_cb again and again with one
\* frame or more, on a render stream that stays playing every frame a
\* release_render_buffer committed is delivered to the hardware in the end
\* (the k-th frame committed since the last Reset becomes the k-th frame
\* delivered), and once the client commits no more, held_frames ends at 0 and
\* stays there.
C39_RenderLiveness ==
    /\ \A k \in 1..MaxWritten :
           []((released_sum >= k /\ []stream.playing) => <>(copied_sum >= k))
    /\ \A c \in 0..MaxWritten :
           <>[](stream.playing /\ released_sum = c) => <>[](stream.held_frames = 0)

\* a playing render stream whose committed frames have all been delivered,
\* the last of them by the callback that just ran
C39_Witness ==
    /\ stream.flow = eRender
    /\ stream.playing
    /\ released_sum > 1
    /\ copied_sum = released_sum
    /\ stream.held_frames = 0
    /\ Len(hw_expect) > 0

\* s1 is s but for the playing flag
same_but_playing(s, s1) == s1 = [s EXCEPT !.playing = s1.playing]

\* the stream after a Stop and the next Start
restarted(s) == start(stop(s).stream).stream

\* C40: start and stop change nothing of a stream but playing: ring
\* contents, read and write offsets, held counts, written_frames and
\* getbuf_last stay; so after a Stop and the next Start a render callback
\* delivers the frames committed before the Stop, oldest first, then
\* silence, and a release after a Stop of an acquisition made before it has
\* the result and the effect it would have had without the Stop.
C40_StartStopFlagOnly ==
    /\ same_but_playing(stream, start(stream).stream)
    /\ same_but_playing(stream, stop(stream).stream)
    /\ start(stream).stream.playing
    /\ ~stop(stream).stream.playing
    /\ restarted(stream) = [stream EXCEPT !.playing = TRUE]
    /\ stream.flow = eRender =>
           /\ \A nframes \in 0..MaxN :
                  LET taken == min(nframes, Len(pending))
                  IN  render_cb_data(restarted(stream), nframes)
                          = SubSeq(pending, 1, taken)
                            \o [j \in 1..(nframes - taken) |-> silence_value(stream.fmt)]
           /\ \A frames \in 0..MaxFrames, flags \in {NoFlags, AUDCLNT_BUFFERFLAGS_SILENT} :
                  LET now == release_render_buffer(stream, frames, flags, client_tmp)
                      later == release_render_buffer(stop(stream).stream, frames, flags,
                                                     client_tmp)
                  IN  /\ later.result = now.result
                      /\ same_but_playing(now.stream, later.stream)
    /\ stream.flow = eCapture =>
           \A done \in 0..MaxFrames :
               LET now == release_capture_buffer(stream, done)
                   later == release_capture_buffer(stop(stream).stream, done)
               IN  /\ later.result = now.result
                   /\ same_but_playing(now.stream, later.stream)

\* a render stream stopped after it played, with committed frames still in
\* the ring and an acquisition outstanding that the client has filled
C40_Witness ==
    /\ stream.flow = eRender
    /\ ~stream.playing
    /\ copied_sum > 0
    /\ stream.held_frames > 0
    /\ stream.getbuf_last # 0
    /\ handed.data # [j \in 1..handed.frames |-> silence_value(stream.fmt)]

====
